---- MODULE Spec2Model ----
(***************************************************************************)
(* Model of the intent pipeline of ask-exact: the Filter/Intent model,     *)
(* the OData filter compiler, the tool registry, Intent.validate and       *)
(* ExactToolbox.execute (src/ask/code).                                    *)
(*                                                                         *)
(* Spec is one call of ExactToolbox.execute against the registry;          *)
(* SpecIntent is the construction, compilation, serialisation and change   *)
(* of an Intent object a caller holds (Intent.from_dict, the parser,       *)
(* to_dict, to_odata_filter_url, _render_filter).  SpecChat is one call of  *)
(* IntentFormer.chat through the toolbox of src/ask/services.py,           *)
(* SpecForwarder one call of the view api_forwarder, SpecService one call  *)
(* of ExactOnlineService.get, and SpecCallback the OAuth callback view     *)
(* served by several workers at once.                                      *)
(*                                                                         *)
(* Python str values are sequences of one-character strings, so that       *)
(* quoting, joining, prefix stripping and percent-encoding are computed    *)
(* character by character as the code computes them.  Optional[str] is a   *)
(* record [isNone, s]; a dict is a record whose DOMAIN is its key set.     *)
(***************************************************************************)
EXTENDS Integers, Sequences, FiniteSets, TLC

(***************************************************************************)
(* Bounds of the model.                                                    *)
(***************************************************************************)
\* longest filter list of an Intent handed to execute
MaxFilters == 2

(***************************************************************************)
(* String literals.                                                        *)
(***************************************************************************)
\* 'invoices'
s_invoices == <<"i", "n", "v", "o", "i", "c", "e", "s">>
\* 'Invoices'
s_Invoices == <<"I", "n", "v", "o", "i", "c", "e", "s">>
\* 'accounts'
s_accounts == <<"a", "c", "c", "o", "u", "n", "t", "s">>
\* 'Accounts'
s_Accounts == <<"A", "c", "c", "o", "u", "n", "t", "s">>
\* 'items'
s_items == <<"i", "t", "e", "m", "s">>
\* 'Items'
s_Items == <<"I", "t", "e", "m", "s">>
\* 'nonexistent'
s_nonexistent == <<"n", "o", "n", "e", "x", "i", "s", "t", "e", "n", "t">>
\* 'status'
s_status == <<"s", "t", "a", "t", "u", "s">>
\* 'amount'
s_amount == <<"a", "m", "o", "u", "n", "t">>
\* 'bogus'
s_bogus == <<"b", "o", "g", "u", "s">>
\* 'open'
s_open == <<"o", "p", "e", "n">>
\* 'paid'
s_paid == <<"p", "a", "i", "d">>
\* "O'Brien"
s_OBrien == <<"O", "'", "B", "r", "i", "e", "n">>
\* '/api/v1/{division}/salesinvoice/SalesInvoices'
s_uri_invoices == <<"/", "a", "p", "i", "/", "v", "1", "/", "{", "d", "i", "v", "i", "s", "i", "o", "n", "}", "/", "s", "a", "l", "e", "s", "i", "n", "v", "o", "i", "c", "e", "/", "S", "a", "l", "e", "s", "I", "n", "v", "o", "i", "c", "e", "s">>
\* '/crm/Accounts'
s_uri_accounts == <<"/", "c", "r", "m", "/", "A", "c", "c", "o", "u", "n", "t", "s">>
\* '/api/v1/{division}/'
s_division_prefix == <<"/", "a", "p", "i", "/", "v", "1", "/", "{", "d", "i", "v", "i", "s", "i", "o", "n", "}", "/">>
\* 'Sales invoices'
s_desc_invoices == <<"S", "a", "l", "e", "s", " ", "i", "n", "v", "o", "i", "c", "e", "s">>
\* 'CRM accounts'
s_desc_accounts == <<"C", "R", "M", " ", "a", "c", "c", "o", "u", "n", "t", "s">>
\* 'Stock items'
s_desc_items == <<"S", "t", "o", "c", "k", " ", "i", "t", "e", "m", "s">>
\* 'invoice'
s_kw_invoice == <<"i", "n", "v", "o", "i", "c", "e">>
\* 'sales'
s_kw_sales == <<"s", "a", "l", "e", "s">>
\* 'd.results'
s_info == <<"d", ".", "r", "e", "s", "u", "l", "t", "s">>
\* '\n\nKeywords: '
s_keywords_label == <<"\n", "\n", "K", "e", "y", "w", "o", "r", "d", "s", ":", " ">>
\* ', '
s_comma_space == <<",", " ">>
\* 'Intent is missing tool_call'
s_missing_tool_call == <<"I", "n", "t", "e", "n", "t", " ", "i", "s", " ", "m", "i", "s", "s", "i", "n", "g", " ", "t", "o", "o", "l", "_", "c", "a", "l", "l">>
\* "Tool '"
s_Tool_q == <<"T", "o", "o", "l", " ", "'">>
\* "' not found. Available tools are: "
s_q_not_found_available == <<"'", " ", "n", "o", "t", " ", "f", "o", "u", "n", "d", ".", " ", "A", "v", "a", "i", "l", "a", "b", "l", "e", " ", "t", "o", "o", "l", "s", " ", "a", "r", "e", ":", " ">>
\* "' not found"
s_q_not_found == <<"'", " ", "n", "o", "t", " ", "f", "o", "u", "n", "d">>
\* 'Invalid field name(s): '
s_invalid_field_names == <<"I", "n", "v", "a", "l", "i", "d", " ", "f", "i", "e", "l", "d", " ", "n", "a", "m", "e", "(", "s", ")", ":", " ">>
\* '. Available fields for this endpoint are: '
s_available_fields_are == <<".", " ", "A", "v", "a", "i", "l", "a", "b", "l", "e", " ", "f", "i", "e", "l", "d", "s", " ", "f", "o", "r", " ", "t", "h", "i", "s", " ", "e", "n", "d", "p", "o", "i", "n", "t", " ", "a", "r", "e", ":", " ">>
\* 'API URI not found for endpoint: '
s_uri_not_found == <<"A", "P", "I", " ", "U", "R", "I", " ", "n", "o", "t", " ", "f", "o", "u", "n", "d", " ", "f", "o", "r", " ", "e", "n", "d", "p", "o", "i", "n", "t", ":", " ">>
\* 'Execution failed: '
s_execution_failed == <<"E", "x", "e", "c", "u", "t", "i", "o", "n", " ", "f", "a", "i", "l", "e", "d", ":", " ">>
\* 'API call failed with status '
s_api_call_failed == <<"A", "P", "I", " ", "c", "a", "l", "l", " ", "f", "a", "i", "l", "e", "d", " ", "w", "i", "t", "h", " ", "s", "t", "a", "t", "u", "s", " ">>
\* "'NoneType' object is not iterable"
s_not_iterable == <<"'", "N", "o", "n", "e", "T", "y", "p", "e", "'", " ", "o", "b", "j", "e", "c", "t", " ", "i", "s", " ", "n", "o", "t", " ", "i", "t", "e", "r", "a", "b", "l", "e">>
\* "'NoneType' object has no attribute 'keys'"
s_no_attribute_keys == <<"'", "N", "o", "n", "e", "T", "y", "p", "e", "'", " ", "o", "b", "j", "e", "c", "t", " ", "h", "a", "s", " ", "n", "o", " ", "a", "t", "t", "r", "i", "b", "u", "t", "e", " ", "'", "k", "e", "y", "s", "'">>
\* 'No valid token found. Please authorize first.'
s_no_valid_token == <<"N", "o", " ", "v", "a", "l", "i", "d", " ", "t", "o", "k", "e", "n", " ", "f", "o", "u", "n", "d", ".", " ", "P", "l", "e", "a", "s", "e", " ", "a", "u", "t", "h", "o", "r", "i", "z", "e", " ", "f", "i", "r", "s", "t", ".">>
\* 'Failed to get user info: '
s_user_info_failed == <<"F", "a", "i", "l", "e", "d", " ", "t", "o", " ", "g", "e", "t", " ", "u", "s", "e", "r", " ", "i", "n", "f", "o", ":", " ">>
\* 'Expecting value: line 1 column 1 (char 0)'
s_expecting_value == <<"E", "x", "p", "e", "c", "t", "i", "n", "g", " ", "v", "a", "l", "u", "e", ":", " ", "l", "i", "n", "e", " ", "1", " ", "c", "o", "l", "u", "m", "n", " ", "1", " ", "(", "c", "h", "a", "r", " ", "0", ")">>
\* 'Unauthorized'
s_text_unauthorized == <<"U", "n", "a", "u", "t", "h", "o", "r", "i", "z", "e", "d">>
\* 'Created'
s_text_created == <<"C", "r", "e", "a", "t", "e", "d">>
\* '?$filter='
s_filter_marker == <<"?", "$", "f", "i", "l", "t", "e", "r", "=">>
\* ' and '
s_and == <<" ", "a", "n", "d", " ">>
\* ' or '
s_or == <<" ", "o", "r", " ">>
\* ' eq '
s_eq == <<" ", "e", "q", " ">>
\* ' in ('
s_in_open == <<" ", "i", "n", " ", "(">>
\* '('
s_lparen == <<"(">>
\* ')'
s_rparen == <<")">>
\* ' '
s_space == <<" ">>
\* "'"
s_quote == <<"'">>
\* "''"
s_quote_quote == <<"'", "'">>
\* 'true'
s_true == <<"t", "r", "u", "e">>
\* 'false'
s_false == <<"f", "a", "l", "s", "e">>
\* ' eq null'
s_eq_null == <<" ", "e", "q", " ", "n", "u", "l", "l">>
\* ' ne null'
s_ne_null == <<" ", "n", "e", " ", "n", "u", "l", "l">>
\* 'None'
s_None == <<"N", "o", "n", "e">>
\* '-'
s_minus == <<"-">>
\* "' is not a valid Op"
s_not_valid_op == <<"'", " ", "i", "s", " ", "n", "o", "t", " ", "a", " ", "v", "a", "l", "i", "d", " ", "O", "p">>
\* "'field'"
s_key_field == <<"'", "f", "i", "e", "l", "d", "'">>
\* "'op'"
s_key_op == <<"'", "o", "p", "'">>
\* 'like'
s_like == <<"l", "i", "k", "e">>
\* 'EQ'
s_EQ == <<"E", "Q">>
\* 'open invoices'
s_message == <<"o", "p", "e", "n", " ", "i", "n", "v", "o", "i", "c", "e", "s">>
\* '//crm/Accounts'
s_uri_two_slashes == <<"/", "/", "c", "r", "m", "/", "A", "c", "c", "o", "u", "n", "t", "s">>
\* 'logistics/Items'
s_uri_no_slash == <<"l", "o", "g", "i", "s", "t", "i", "c", "s", "/", "I", "t", "e", "m", "s">>
\* 'Unsupported operator: Op.'
s_unsupported == <<"U", "n", "s", "u", "p", "p", "o", "r", "t", "e", "d", " ", "o", "p", "e", "r", "a", "t", "o", "r", ":", " ", "O", "p", ".">>
\* 'open invoices'
s_description == <<"o", "p", "e", "n", " ", "i", "n", "v", "o", "i", "c", "e", "s">>
\* the printable ASCII characters, code points 32..126, in code-point order
\* (the double quote, the backslash and the backtick, which no modelled string holds, are named)
Ascii ==
    <<" ", "!", "DQUOTE", "#", "$", "%", "&", "'", "(", ")", "*", "+", ",", "-", ".", "/",
      "0", "1", "2", "3", "4", "5", "6", "7", "8", "9", ":", ";", "<", "=", ">", "?",
      "@", "A", "B", "C", "D", "E", "F", "G", "H", "I", "J", "K", "L", "M", "N", "O",
      "P", "Q", "R", "S", "T", "U", "V", "W", "X", "Y", "Z", "[", "BACKSLASH", "]", "^", "_",
      "BACKTICK", "a", "b", "c", "d", "e", "f", "g", "h", "i", "j", "k", "l", "m", "n", "o",
      "p", "q", "r", "s", "t", "u", "v", "w", "x", "y", "z", "{", "|", "}", "~">>

(***************************************************************************)
(* Python str, list and int helpers.                                       *)
(***************************************************************************)
\* the code point of each printable ASCII character
CodePoint == [c \in {Ascii[i] : i \in 1..Len(Ascii)} |->
                 31 + (CHOOSE i \in 1..Len(Ascii) : Ascii[i] = c)]

\* ord(c), for the printable ASCII characters
Ord(c) == CodePoint[c]

\* chr(n)
Chr(n) == Ascii[n - 31]

\* str.lower() of one character
LowerChar(c) ==
    IF c \in {Ascii[i] : i \in 34..59} THEN Chr(Ord(c) + 32) ELSE c

\* str.lower()
Lower(s) == [i \in 1..Len(s) |-> LowerChar(s[i])]

\* str.startswith(prefix)
StartsWith(s, prefix) ==
    /\ Len(prefix) <= Len(s)
    /\ SubSeq(s, 1, Len(prefix)) = prefix

\* mutant of LStrip: one leading character is removed at most
LStrip_One(s, chars) ==
    IF s # <<>> /\ s[1] \in chars THEN SubSeq(s, 2, Len(s)) ELSE s

RECURSIVE LStrip(_, _)
\* str.lstrip(chars): drops every leading character that is in chars
LStrip(s, chars) ==
    IF s # <<>> /\ Head(s) \in chars THEN LStrip(Tail(s), chars) ELSE s

RECURSIVE Concat(_)
\* "".join(parts), by halves so that long strings nest shallowly
Concat(parts) ==
    IF parts = <<>> THEN <<>>
    ELSE IF Len(parts) = 1 THEN parts[1]
    ELSE LET mid == Len(parts) \div 2
         IN Concat(SubSeq(parts, 1, mid)) \o Concat(SubSeq(parts, mid + 1, Len(parts)))

\* sep.join(parts)
Join(sep, parts) ==
    Concat([i \in 1..Len(parts) |-> IF i = 1 THEN parts[i] ELSE sep \o parts[i]])

\* str.replace(old, new) for a one-character old
Replace(s, old, new) ==
    Concat([i \in 1..Len(s) |-> IF s[i] = old THEN new ELSE <<s[i]>>])

RECURSIVE NatToStr(_)
NatToStr(n) ==
    IF n < 10 THEN <<Chr(48 + n)>>
    ELSE NatToStr(n \div 10) \o <<Chr(48 + (n % 10))>>

\* str(n) of an int
IntToStr(n) == IF n < 0 THEN s_minus \o NatToStr(-n) ELSE NatToStr(n)

\* str(x) of a float x = tenths / 10 (repr is the shortest decimal: 100.5, 1000.0)
FloatToStr(tenths) ==
    LET m == IF tenths < 0 THEN -tenths ELSE tenths
    IN (IF tenths < 0 THEN s_minus ELSE <<>>)
       \o NatToStr(m \div 10) \o <<".">> \o NatToStr(m % 10)

RECURSIVE StrLess(_, _)
\* a < b on str: lexicographic by code point
StrLess(a, b) ==
    IF b = <<>> THEN FALSE
    ELSE IF a = <<>> THEN TRUE
    ELSE IF Head(a) = Head(b) THEN StrLess(Tail(a), Tail(b))
    ELSE Ord(Head(a)) < Ord(Head(b))

RECURSIVE Sorted_Descending(_)
\* mutant of Sorted: the greatest element first
Sorted_Descending(S) ==
    IF S = {} THEN <<>>
    ELSE LET m == CHOOSE x \in S : \A y \in S \ {x} : StrLess(y, x)
         IN <<m>> \o Sorted_Descending(S \ {m})

RECURSIVE Sorted(_)
\* sorted(S) of a set of str
Sorted(S) ==
    IF S = {} THEN <<>>
    ELSE LET m == CHOOSE x \in S : \A y \in S \ {x} : StrLess(x, y)
         IN <<m>> \o Sorted(S \ {m})

\* the elements of a list
Range(seq) == {seq[i] : i \in 1..Len(seq)}

\* Optional[str]
NoneStr == [isNone |-> TRUE, s |-> <<>>]
SomeStr(s) == [isNone |-> FALSE, s |-> s]

(***************************************************************************)
(* Filter / Intent model (src/ask/code/intent.py).                         *)
(***************************************************************************)
\* class Op: the twelve operator strings
Op == {"eq", "ne", "gt", "ge", "lt", "le", "in",
       "contains", "startswith", "endswith", "is_null", "is_not_null"}

\* f.op.value as a str
OpText(op) ==
    CASE op = "eq" -> <<"e", "q">>
      [] op = "ne" -> <<"n", "e">>
      [] op = "gt" -> <<"g", "t">>
      [] op = "ge" -> <<"g", "e">>
      [] op = "lt" -> <<"l", "t">>
      [] op = "le" -> <<"l", "e">>
      [] op = "in" -> <<"i", "n">>
      [] op = "contains" -> <<"c", "o", "n", "t", "a", "i", "n", "s">>
      [] op = "startswith" -> <<"s", "t", "a", "r", "t", "s", "w", "i", "t", "h">>
      [] op = "endswith" -> <<"e", "n", "d", "s", "w", "i", "t", "h">>
      [] op = "is_null" -> <<"i", "s", "_", "n", "u", "l", "l">>
      [] op = "is_not_null" -> <<"i", "s", "_", "n", "o", "t", "_", "n", "u", "l", "l">>

\* Primitive values, with None for an absent value
PyNone == [kind |-> "none", s |-> <<>>, n |-> 0, b |-> FALSE]
PyStr(s) == [kind |-> "str", s |-> s, n |-> 0, b |-> FALSE]
PyInt(n) == [kind |-> "int", s |-> <<>>, n |-> n, b |-> FALSE]
PyBool(b) == [kind |-> "bool", s |-> <<>>, n |-> 0, b |-> b]
\* a float with one decimal digit, held as its number of tenths
PyFloat(tenths) == [kind |-> "float", s |-> <<>>, n |-> tenths, b |-> FALSE]

\* Optional[List[Primitive]]
NoneList == [isNone |-> TRUE, items |-> <<>>]
SomeList(items) == [isNone |-> FALSE, items |-> items]

\* dataclass Filter(field, op, value=None, values=None)
Filter(field, op, value, values) ==
    [field |-> field, op |-> op, value |-> value, values |-> values]

\* Filter.to_dict: value and values are emitted only when not None
FilterToDict(f) ==
    LET base == [field |-> f.field, op |-> OpText(f.op)]
        withValue == IF f.value.kind # "none"
                     THEN [field |-> f.field, op |-> OpText(f.op), value |-> f.value]
                     ELSE base
    IN IF f.values.isNone THEN withValue
       ELSE IF f.value.kind # "none"
            THEN [field |-> f.field, op |-> OpText(f.op), value |-> f.value,
                  values |-> f.values.items]
            ELSE [field |-> f.field, op |-> OpText(f.op), values |-> f.values.items]

\* Intent.__init__: filters or [], use_in kept as _use_in
NewIntent(tool_call, description, filters, use_in) ==
    [tool_call |-> tool_call, description |-> description,
     filters |-> filters, use_in |-> use_in]

\* a call that returned v / a call that raised exception type exc with message msg
Returned(v) == [raised |-> FALSE, v |-> v, exc |-> "", msg |-> <<>>]
Raised(exc, msg, dummy) == [raised |-> TRUE, v |-> dummy, exc |-> exc, msg |-> msg]

(***************************************************************************)
(* OData compiler (Intent._render_filter, Intent.to_odata_filter_url).     *)
(***************************************************************************)
\* mutant of Quote: embedded single quotes are not doubled
Quote_NoDoubling(value) ==
    IF value.kind = "bool" THEN (IF value.b THEN s_true ELSE s_false)
    ELSE IF value.kind = "int" THEN IntToStr(value.n)
    ELSE IF value.kind = "float" THEN FloatToStr(value.n)
    ELSE LET text == IF value.kind = "none" THEN s_None ELSE value.s
         IN s_quote \o text \o s_quote

\* _q: bool before int and float, other values str()-ed, quoted, quotes doubled
Quote(value) ==
    IF value.kind = "bool" THEN (IF value.b THEN s_true ELSE s_false)
    ELSE IF value.kind = "int" THEN IntToStr(value.n)
    ELSE IF value.kind = "float" THEN FloatToStr(value.n)
    ELSE LET text == IF value.kind = "none" THEN s_None ELSE value.s
         IN s_quote \o Replace(text, "'", s_quote_quote) \o s_quote

\* the branch `if f.op == Op.IN` of _render_filter in the native mode
RenderIn(f) ==
    Returned(f.field \o s_in_open
             \o Join(s_comma_space,
                     [i \in 1..Len(f.values.items) |-> Quote(f.values.items[i])])
             \o s_rparen)

\* mutant of RenderMembership: the rendering mode is ignored
RenderMembership_AlwaysNative(use_in, f) ==
    IF f.values.isNone THEN Raised("TypeError", s_not_iterable, <<>>)
    ELSE RenderIn(f)

\* the branch `if f.op == Op.IN` of _render_filter: iterating values = None
\* raises TypeError
RenderMembership(use_in, f) ==
    IF f.values.isNone THEN Raised("TypeError", s_not_iterable, <<>>)
    ELSE IF use_in THEN RenderIn(f)
    ELSE Returned(s_lparen
                  \o Join(s_or,
                          [i \in 1..Len(f.values.items) |->
                              f.field \o s_eq \o Quote(f.values.items[i])])
                  \o s_rparen)

\* mutant of RenderFilter: no rule for is_not_null
RenderFilter_NoIsNotNull(use_in, f) ==
    IF f.op \in {"eq", "ne", "gt", "ge", "lt", "le"}
    THEN Returned(f.field \o s_space \o OpText(f.op) \o s_space \o Quote(f.value))
    ELSE IF f.op = "in" THEN RenderMembership(use_in, f)
    ELSE IF f.op \in {"contains", "startswith", "endswith"}
    THEN Returned(OpText(f.op) \o s_lparen \o f.field \o s_comma_space
                  \o Quote(f.value) \o s_rparen)
    ELSE IF f.op = "is_null" THEN Returned(f.field \o s_eq_null)
    ELSE Raised("ValueError", s_unsupported \o OpText(f.op), <<>>)

\* Intent._render_filter
RenderFilter(use_in, f) ==
    IF f.op \in {"eq", "ne", "gt", "ge", "lt", "le"}
    THEN Returned(f.field \o s_space \o OpText(f.op) \o s_space \o Quote(f.value))
    ELSE IF f.op = "in" THEN RenderMembership(use_in, f)
    ELSE IF f.op \in {"contains", "startswith", "endswith"}
    THEN Returned(OpText(f.op) \o s_lparen \o f.field \o s_comma_space
                  \o Quote(f.value) \o s_rparen)
    ELSE IF f.op = "is_null" THEN Returned(f.field \o s_eq_null)
    ELSE IF f.op = "is_not_null" THEN Returned(f.field \o s_ne_null)
    ELSE Raised("ValueError", s_unsupported \o OpText(f.op), <<>>)

\* one hexadecimal digit
HexDigit(d) == IF d < 10 THEN Chr(48 + d) ELSE Chr(55 + d)

\* mutant of QuoteChar: parentheses and the single quote are left as they are
QuoteChar_ParensAndQuoteSafe(c) ==
    LET o == Ord(c)
    IN IF \/ o \in 48..57 \/ o \in 65..90 \/ o \in 97..122
          \/ c \in {"_", ".", "-", "~", "/", "(", ")", "'"}
       THEN <<c>>
       ELSE <<"%", HexDigit(o \div 16), HexDigit(o % 16)>>

\* urllib.parse.quote of one ASCII character, safe = "/"
QuoteChar(c) ==
    LET o == Ord(c)
    IN IF \/ o \in 48..57 \/ o \in 65..90 \/ o \in 97..122
          \/ c \in {"_", ".", "-", "~", "/"}
       THEN <<c>>
       ELSE <<"%", HexDigit(o \div 16), HexDigit(o % 16)>>

\* quote of each printable ASCII character
QuotedChar == [c \in DOMAIN CodePoint |-> QuoteChar(c)]

\* urllib.parse.quote(s)
UrlQuote(s) == Concat([i \in 1..Len(s) |-> QuotedChar[s[i]]])

RECURSIVE FirstPerField(_)
\* the filters of the list that are the first on their field, in list order
FirstPerField(filters) ==
    IF filters = <<>> THEN <<>>
    ELSE LET front == SubSeq(filters, 1, Len(filters) - 1)
             last == filters[Len(filters)]
         IN IF \E i \in 1..Len(front) : front[i].field = last.field
            THEN FirstPerField(front)
            ELSE Append(FirstPerField(front), last)

\* mutant of ToODataFilterUrl: without the `if not self.filters` early return
ToODataFilterUrl_NoEmptyCheck(intent) ==
    LET parts == [i \in 1..Len(intent.filters) |->
                     RenderFilter(intent.use_in, intent.filters[i])]
    IN IF \E i \in 1..Len(parts) : parts[i].raised
       THEN parts[CHOOSE i \in 1..Len(parts) :
                    /\ parts[i].raised
                    /\ \A j \in 1..(i - 1) : ~parts[j].raised]
       ELSE Returned(s_filter_marker
                     \o UrlQuote(Join(s_and,
                            [i \in 1..Len(parts) |->
                                s_lparen \o parts[i].v \o s_rparen])))

\* mutant of ToODataFilterUrl: a later filter on a field already filtered is
\* merged away
ToODataFilterUrl_OnePerField(intent) ==
    IF intent.filters = <<>> THEN Returned(<<>>)
    ELSE ToODataFilterUrl_NoEmptyCheck(
             [intent EXCEPT !.filters = FirstPerField(intent.filters)])

\* Intent.to_odata_filter_url
ToODataFilterUrl(intent) ==
    IF intent.filters = <<>> THEN Returned(<<>>)
    ELSE LET parts == [i \in 1..Len(intent.filters) |->
                          RenderFilter(intent.use_in, intent.filters[i])]
         IN IF \E i \in 1..Len(parts) : parts[i].raised
            THEN parts[CHOOSE i \in 1..Len(parts) :
                         /\ parts[i].raised
                         /\ \A j \in 1..(i - 1) : ~parts[j].raised]
            ELSE Returned(s_filter_marker
                          \o UrlQuote(Join(s_and,
                                 [i \in 1..Len(parts) |->
                                     s_lparen \o parts[i].v \o s_rparen])))

\* mutant of IntentToDict: the fragment is the one of the list before its last
\* filter was added
IntentToDict_FragmentOfEarlierList(intent) ==
    LET earlier == [intent EXCEPT
                       !.filters = SubSeq(intent.filters, 1, Len(intent.filters) - 1)]
        odata == ToODataFilterUrl(earlier)
    IN IF odata.raised THEN Raised(odata.exc, odata.msg, <<>>)
       ELSE Returned([tool_call |-> intent.tool_call,
                      description |-> intent.description,
                      filters |-> [i \in 1..Len(intent.filters) |->
                                      FilterToDict(intent.filters[i])],
                      odata_filter |-> odata.v])

\* Intent.to_dict: the wire form, odata_filter recomputed from the filters
IntentToDict(intent) ==
    LET odata == ToODataFilterUrl(intent)
    IN IF odata.raised THEN Raised(odata.exc, odata.msg, <<>>)
       ELSE Returned([tool_call |-> intent.tool_call,
                      description |-> intent.description,
                      filters |-> [i \in 1..Len(intent.filters) |->
                                      FilterToDict(intent.filters[i])],
                      odata_filter |-> odata.v])

\* Intent.to_odata of src/ask/services.py: the compiled expression, un-encoded
ToOData(intent) ==
    IF intent.filters = <<>> THEN Returned(<<>>)
    ELSE LET parts == [i \in 1..Len(intent.filters) |->
                          RenderFilter(intent.use_in, intent.filters[i])]
         IN IF \E i \in 1..Len(parts) : parts[i].raised
            THEN parts[CHOOSE i \in 1..Len(parts) :
                         /\ parts[i].raised
                         /\ \A j \in 1..(i - 1) : ~parts[j].raised]
            ELSE Returned(Join(s_and, [i \in 1..Len(parts) |->
                                          s_lparen \o parts[i].v \o s_rparen]))

\* mutant of OpFromText: the text is lower-cased before the lookup
OpFromText_IgnoreCase(text) ==
    IF \E o \in Op : OpText(o) = Lower(text)
    THEN Returned(CHOOSE o \in Op : OpText(o) = Lower(text))
    ELSE Raised("ValueError", s_quote \o text \o s_not_valid_op, "eq")

\* Op(text): the member whose value is text, ValueError when there is none
OpFromText(text) ==
    IF \E o \in Op : OpText(o) = text
    THEN Returned(CHOOSE o \in Op : OpText(o) = text)
    ELSE Raised("ValueError", s_quote \o text \o s_not_valid_op, "eq")

\* f.get("value") and f.get("values") of a filter entry: None for an absent key
GetValue(f) == IF "value" \in DOMAIN f THEN f.value ELSE PyNone
GetValues(f) == IF "values" \in DOMAIN f THEN SomeList(f.values) ELSE NoneList

\* the Filter(...) call of from_dict and of the parser on one entry: f["field"]
\* and f["op"] raise KeyError for an absent key, Op(...) raises ValueError
FilterFromEntry(f) ==
    LET none == Filter(<<>>, "eq", PyNone, NoneList)
    IN IF "field" \notin DOMAIN f THEN Raised("KeyError", s_key_field, none)
       ELSE IF "op" \notin DOMAIN f THEN Raised("KeyError", s_key_op, none)
       ELSE LET op == OpFromText(f.op)
            IN IF op.raised THEN Raised(op.exc, op.msg, none)
               ELSE Returned(Filter(f.field, op.v, GetValue(f), GetValues(f)))

\* the outcome of the loop over the entries: the Filters, or the first raise
FiltersFromEntries(entries) ==
    LET built == [i \in 1..Len(entries) |-> FilterFromEntry(entries[i])]
    IN IF \E i \in 1..Len(built) : built[i].raised
       THEN LET k == CHOOSE i \in 1..Len(built) :
                        /\ built[i].raised
                        /\ \A j \in 1..(i - 1) : ~built[j].raised
            IN Raised(built[k].exc, built[k].msg, <<>>)
       ELSE Returned([i \in 1..Len(built) |-> built[i].v])

\* Intent.from_dict: use_in is not passed on and keeps its default
FromDict(data) ==
    LET filters == FiltersFromEntries(IF "filters" \in DOMAIN data
                                      THEN data.filters ELSE <<>>)
    IN IF filters.raised
       THEN Raised(filters.exc, filters.msg, NewIntent(NoneStr, NoneStr, <<>>, TRUE))
       ELSE Returned(NewIntent(
                IF "tool_call" \in DOMAIN data THEN data.tool_call ELSE NoneStr,
                IF "description" \in DOMAIN data THEN data.description ELSE NoneStr,
                filters.v, TRUE))

\* IntentParser._determine_filters on the model's answer: JSONDecodeError,
\* ValueError and KeyError are caught and give the empty list
DetermineFilters(response_content) ==
    IF ~response_content.is_json THEN <<>>
    ELSE LET filters == FiltersFromEntries(response_content.filter_data)
         IN IF filters.raised THEN <<>> ELSE filters.v

\* IntentParser.parse_intent, given what the two model calls answered
ParseIntent(message, tool_call, response_content) ==
    NewIntent(SomeStr(tool_call), SomeStr(message),
              DetermineFilters(response_content), TRUE)

(***************************************************************************)
(* Tool registry (src/ask/code/exact_toolbox.py).                          *)
(***************************************************************************)
\* a catalog value that is JSON null or an absent key
NoFields == [isNone |-> TRUE, items |-> <<>>]
\* a field schema: the (name, type) pairs of the "fields" object, in file order
Fields(items) == [isNone |-> FALSE, items |-> items]
\* documentation.endpoint_info with / without a "uri" key
EndpointInfo(uri) == [hasUri |-> TRUE, uri |-> uri]
NoUri == [hasUri |-> FALSE, uri |-> <<>>]

\* one entry of TOOL_DOCUMENTATION.json
CatalogEntry(key, fields, description, keywords, data_info, endpoint_info) ==
    [key |-> key, fields |-> fields,
     documentation |-> [llm_description |-> description, llm_keywords |-> keywords,
                        llm_data_info |-> data_info, endpoint_info |-> endpoint_info]]

\* a catalog with a tool with a field schema and a prefixed URI template, a tool
\* without a field schema ("fields": null) and an unprefixed template, and a tool
\* whose endpoint_info has no uri
CatalogFull ==
    << CatalogEntry(s_Invoices,
                    Fields(<< [name |-> s_status, type |-> "Edm.String"],
                              [name |-> s_amount, type |-> "Edm.Double"] >>),
                    s_desc_invoices, <<s_kw_invoice, s_kw_sales>>, s_info,
                    EndpointInfo(s_uri_invoices)),
       CatalogEntry(s_Accounts, NoFields, s_desc_accounts, <<>>, s_info,
                    EndpointInfo(s_uri_accounts)),
       CatalogEntry(s_Items,
                    Fields(<< [name |-> s_status, type |-> "Edm.String"] >>),
                    s_desc_items, <<>>, s_info, NoUri) >>

\* a catalog of two tools with the single field status, one with a template
\* that begins with two slashes and one with a template without leading slash,
\* and a tool whose template is the empty string
CatalogSmall ==
    << CatalogEntry(s_Invoices,
                    Fields(<< [name |-> s_status, type |-> "Edm.String"] >>),
                    s_desc_invoices, <<s_kw_invoice>>, s_info,
                    EndpointInfo(s_uri_two_slashes)),
       CatalogEntry(s_Items,
                    Fields(<< [name |-> s_status, type |-> "Edm.String"] >>),
                    s_desc_items, <<>>, s_info,
                    EndpointInfo(s_uri_no_slash)),
       CatalogEntry(s_Accounts, NoFields, s_desc_accounts, <<>>, s_info,
                    EndpointInfo(<<>>)) >>

\* the catalogs the registry may have been loaded from (the catalog of the
\* repository holds more than 65 endpoints, src/ask/tests.py:18: never none)
Catalogs == {CatalogFull, CatalogSmall}

\* ExactToolbox._generate_tools: one tool per catalog entry, name lower-cased
GenerateTools(TOOL_DOCS) ==
    [i \in 1..Len(TOOL_DOCS) |->
        LET endpoint_config == TOOL_DOCS[i]
            documentation == endpoint_config.documentation
        IN [name |-> Lower(endpoint_config.key),
            description |-> documentation.llm_description \o s_keywords_label
                            \o Join(s_comma_space, documentation.llm_keywords),
            data_summary |-> documentation.llm_data_info,
            fields |-> endpoint_config.fields,
            endpoint_info |-> documentation.endpoint_info]]

\* the first tool whose name is tool_name, as an index into tools (0: none)
FindTool(tools, tool_name) ==
    IF \E i \in 1..Len(tools) : tools[i].name = tool_name
    THEN CHOOSE i \in 1..Len(tools) :
            /\ tools[i].name = tool_name
            /\ \A j \in 1..(i - 1) : tools[j].name # tool_name
    ELSE 0

\* ExactToolbox.get_clean_endpoint
GetCleanEndpoint(tools, intent) ==
    LET k == IF intent.tool_call.isNone THEN 0 ELSE FindTool(tools, intent.tool_call.s)
    IN IF k = 0
       THEN Raised("ValueError",
                   s_Tool_q \o (IF intent.tool_call.isNone THEN s_None
                                ELSE intent.tool_call.s) \o s_q_not_found, <<>>)
       ELSE LET endpoint_info == tools[k].endpoint_info
                api_uri == endpoint_info.uri
            IN IF ~endpoint_info.hasUri \/ api_uri = <<>>
               THEN Raised("ValueError", s_uri_not_found \o intent.tool_call.s, <<>>)
               ELSE IF StartsWith(api_uri, s_division_prefix)
               THEN Returned(SubSeq(api_uri, Len(s_division_prefix) + 1, Len(api_uri)))
               ELSE Returned(LStrip(api_uri, {"/"}))

\* ExactToolbox.get_url: clean endpoint, then the filter fragment when non-empty
GetUrl(tools, intent) ==
    LET api_endpoint == GetCleanEndpoint(tools, intent)
    IN IF api_endpoint.raised THEN api_endpoint
       ELSE LET filter_url == ToODataFilterUrl(intent)
            IN IF filter_url.raised THEN filter_url
               ELSE Returned(api_endpoint.v \o filter_url.v)

(***************************************************************************)
(* Intent.validate (src/ask/code/intent.py).                               *)
(***************************************************************************)
\* the filters of the list whose field is not in names, in list order
RECURSIVE InvalidFields(_, _)
InvalidFields(filters, names) ==
    IF filters = <<>> THEN <<>>
    ELSE (IF Head(filters).field \notin names THEN <<Head(filters).field>> ELSE <<>>)
         \o InvalidFields(Tail(filters), names)

\* the result None of validate
NoFailure == [none |-> TRUE]

\* mutant of MissingToolCall: `if self.tool_call is None:`
MissingToolCall_NoneOnly(tool_call) == tool_call.isNone

\* `if not self.tool_call:` None and the empty string are both falsy
MissingToolCall(tool_call) == tool_call.isNone \/ tool_call.s = <<>>

\* mutant of AvailableTools: the first registered tool is left out
AvailableTools_SkipFirst(tools) == [i \in 1..(Len(tools) - 1) |-> tools[i + 1].name]

\* `[tool["name"] for tool in toolbox.tools]`
AvailableTools(tools) == [i \in 1..Len(tools) |-> tools[i].name]

\* the unknown-tool failure
UnknownToolFailure(tool_call, available_tools) ==
    [error |-> s_Tool_q \o tool_call \o s_q_not_found_available
               \o Join(s_comma_space, available_tools),
     available_tools |-> available_tools,
     requested_tool |-> tool_call]

\* Intent.validate: Returned(NoFailure) is the None result
Validate(intent, tools) ==
    IF MissingToolCall(intent.tool_call)
    THEN Returned([error |-> s_missing_tool_call])
    ELSE
    LET available_tools == AvailableTools(tools)
        k == FindTool(tools, intent.tool_call.s)
    IN IF intent.tool_call.s \notin Range(available_tools)
       THEN Returned(UnknownToolFailure(intent.tool_call.s, available_tools))
       ELSE
       LET tool_config == tools[k]
       IN IF intent.filters = <<>> THEN Returned(NoFailure)
          ELSE IF tool_config.fields.isNone
          THEN Raised("AttributeError", s_no_attribute_keys, NoFailure)
          ELSE
          LET available_field_names ==
                  {tool_config.fields.items[i].name :
                      i \in 1..Len(tool_config.fields.items)}
              invalid_fields == InvalidFields(intent.filters, available_field_names)
          IN IF invalid_fields # <<>>
             THEN Returned([error |-> s_invalid_field_names
                                      \o Join(s_comma_space, invalid_fields)
                                      \o s_available_fields_are
                                      \o Join(s_comma_space, Sorted(available_field_names)),
                            invalid_fields |-> invalid_fields,
                            available_fields |-> Sorted(available_field_names),
                            endpoint |-> SomeStr(tool_config.name)])
             ELSE Returned(NoFailure)

(***************************************************************************)
(* The API-access collaborator (exact_oauth.services), as execute sees it. *)
(***************************************************************************)
\* what get_service(session_key) may raise: no stored token for the session
GetServiceFaults == { [exc |-> "ValueError", msg |-> s_no_valid_token] }

\* what service.get(path) may raise: a failed user-info request
ServiceGetFaults ==
    { [exc |-> "ValueError", msg |-> s_user_info_failed \o s_text_unauthorized] }

\* what response.json() may raise: a body that is not JSON
JsonFaults == { [exc |-> "JSONDecodeError", msg |-> s_expecting_value] }

\* status codes of a response: success, another 2xx, a client and a server error
StatusCodes == {200, 201, 401, 500}

\* response.json(): a decoded payload, or the call raises
JsonOutcomes == {Returned("payload_a"), Returned("payload_b")}
                \cup {Raised(f.exc, f.msg, "") : f \in JsonFaults}

\* the responses service.get may return
Responses ==
    [status_code : StatusCodes,
     text : {s_text_unauthorized, s_text_created},
     json : JsonOutcomes]

\* no response received
NoResponse == [status_code |-> 0, text |-> <<>>, json |-> Raised("", <<>>, "")]

(***************************************************************************)
(* ExactToolbox.execute (src/ask/code/exact_toolbox.py).                   *)
(***************************************************************************)
\* execute has not finished / returned d / let an exception escape
Pending == [state |-> "pending", d |-> NoFailure, exc |-> "", msg |-> <<>>]
Return(d) == [state |-> "returned", d |-> d, exc |-> "", msg |-> <<>>]
Escaped(exc, msg) == [state |-> "raised", d |-> NoFailure, exc |-> exc, msg |-> msg]

\* mutant of ValidationBlocks: the result of validate is ignored
ValidationBlocks_Never(validation_error) == FALSE

\* `if validation_error:` a failure dict is truthy, None is not
ValidationBlocks(validation_error) == "error" \in DOMAIN validation_error

\* mutant of ExceptHandler: the resolved endpoint is never reported
ExceptHandler_NoEndpoint(exc_msg, intent, api_endpoint) ==
    LET echo == IntentToDict(intent)
    IN IF echo.raised THEN Escaped(echo.exc, echo.msg)
       ELSE Return([error |-> s_execution_failed \o exc_msg,
                    intent |-> echo.v,
                    endpoint |-> NoneStr])

\* `except Exception as e:` the handler echoes the intent, and intent.to_dict()
\* recompiles the filters outside any try
ExceptHandler(exc_msg, intent, api_endpoint) ==
    LET echo == IntentToDict(intent)
    IN IF echo.raised THEN Escaped(echo.exc, echo.msg)
       ELSE Return([error |-> s_execution_failed \o exc_msg,
                    intent |-> echo.v,
                    endpoint |-> api_endpoint])

\* mutant of IsSuccess: every 2xx status counts as success
IsSuccess_Any2xx(status_code) == status_code \in 200..299

\* `if response.status_code == 200:`
IsSuccess(status_code) == status_code = 200

\* mutant of SuccessEnvelope: filters_applied is always true
SuccessEnvelope_AlwaysApplied(data, intent_dict, api_endpoint, intent) ==
    [success |-> TRUE,
     data |-> data,
     intent |-> intent_dict,
     endpoint |-> SomeStr(api_endpoint),
     filters_applied |-> TRUE]

\* the success envelope
SuccessEnvelope(data, intent_dict, api_endpoint, intent) ==
    [success |-> TRUE,
     data |-> data,
     intent |-> intent_dict,
     endpoint |-> SomeStr(api_endpoint),
     filters_applied |-> Len(intent.filters) > 0]

\* the result for a response with another status
StatusError(response, api_endpoint) ==
    [error |-> s_api_call_failed \o IntToStr(response.status_code),
     details |-> response.text,
     endpoint |-> SomeStr(api_endpoint)]

\* the code after `response = service.get(api_endpoint)`
HandleResponse(response, intent, api_endpoint) ==
    IF IsSuccess(response.status_code)
    THEN IF response.json.raised
         THEN ExceptHandler(response.json.msg, intent, SomeStr(api_endpoint))
         ELSE LET echo == IntentToDict(intent)
              IN IF echo.raised
                 THEN ExceptHandler(echo.msg, intent, SomeStr(api_endpoint))
                 ELSE Return(SuccessEnvelope(response.json.v, echo.v,
                                             api_endpoint, intent))
    ELSE Return(StatusError(response, api_endpoint))

\* mutant of AfterResponse: a 401 response is retried
AfterResponse_RetryOn401(response) ==
    IF response.status_code = 401 THEN "service_get" ELSE "done"

\* where execute goes after a response: both branches on the status return
AfterResponse(response) == "done"

(***************************************************************************)
(* State: the registry and one call of execute in progress.                *)
(***************************************************************************)
VARIABLES
    tools,               \* exact_toolbox.tools, built once at import
    pc,                  \* where the call of execute is
    intent,              \* the Intent being executed
    validation,          \* what intent.validate(self) did
    api_endpoint,        \* the local api_endpoint (None while unbound)
    get_service_calls,   \* invocations of get_service in this call
    requests,            \* the paths passed to service.get in this call
    fault,               \* the collaborator call that raised in this call, and what
    response,            \* what service.get returned
    result,              \* what execute did
    obj,                 \* an Intent object a caller holds and works on directly
    last_call,           \* the last operation applied to obj
    arg,                 \* the argument of that operation
    ret,                 \* what that operation did
    TOOL_CONFIG,         \* the catalog src/ask/services.py loaded at import
    chat_pc,             \* where the call of IntentFormer.chat is
    user_intent,         \* the Intent parse_intent built in this call
    api_calls,           \* the calls of get_service and service.get in this call
    tool_result,         \* what execute_user_intent returned
    chat_reply,          \* what chat returned
    auth_state,          \* the ExactOnlineAuthState row of the issued state
    callbacks,           \* the callback requests being served, one per worker
    token_posts,         \* the workers that posted to the token endpoint, in order
    stored_tokens,       \* the calls of set_token_data by callbacks
    fwd_pc,              \* where the call of api_forwarder is
    fwd_request,         \* the request it serves
    fwd_calls,           \* its calls of get_service and service.get
    fwd_outcome,         \* what the last of these calls did
    fwd_response,        \* the JsonResponse it returned
    svc_pc,              \* where the call of ExactOnlineService.get is
    token,               \* the stored token of the service
    http_log,            \* the HTTP requests of this call of get, in order
    svc_result           \* what get did

vars == <<tools, pc, intent, validation, api_endpoint, get_service_calls,
          requests, fault, response, result, obj, last_call, arg, ret,
          TOOL_CONFIG, chat_pc, user_intent, api_calls, tool_result, chat_reply,
          auth_state, callbacks, token_posts, stored_tokens,
          fwd_pc, fwd_request, fwd_calls, fwd_outcome, fwd_response,
          svc_pc, token, http_log, svc_result>>

\* the variables of a call of IntentFormer.chat
chatVars == <<chat_pc, user_intent, api_calls, tool_result, chat_reply>>

\* the variables of a call of api_forwarder
fwdVars == <<fwd_pc, fwd_request, fwd_calls, fwd_outcome, fwd_response>>

\* the variables of a call of ExactOnlineService.get
svcVars == <<svc_pc, token, http_log, svc_result>>

\* the variables of the OAuth callback view
cbVars == <<auth_state, callbacks, token_posts, stored_tokens>>

\* the variables of the views and of the service beneath the dispatch paths
webVars == <<cbVars, fwdVars, svcVars>>

\* the variables outside the execute call and the Intent operations
otherVars == <<TOOL_CONFIG, chatVars, webVars>>


\* the variables of the operations on an Intent object
objVars == <<obj, last_call, arg, ret>>

\* the variables of a call of execute
execVars == <<pc, intent, validation, api_endpoint, get_service_calls,
              requests, fault, response, result>>

\* the variables of the two toolboxes and of the Intent operations
coreVars == <<tools, execVars, objVars, TOOL_CONFIG, chatVars>>

\* the filters callers put into an Intent
FilterPool ==
    { Filter(s_status, "eq", PyStr(s_open), NoneList),
      Filter(s_amount, "gt", PyInt(1000), NoneList),
      Filter(s_status, "in", PyNone, SomeList(<<PyStr(s_open), PyStr(s_paid)>>)),
      Filter(s_status, "in", PyNone, NoneList),
      Filter(s_bogus, "eq", PyBool(TRUE), NoneList),
      Filter(s_status, "contains", PyStr(s_OBrien), NoneList),
      Filter(s_amount, "is_null", PyNone, NoneList) }

RECURSIVE SeqsUpTo(_, _)
\* the lists over S of length at most n
SeqsUpTo(S, n) ==
    IF n = 0 THEN {<<>>}
    ELSE LET shorter == SeqsUpTo(S, n - 1)
         IN shorter \cup {Append(q, x) : q \in {t \in shorter : Len(t) = n - 1}, x \in S}

\* the Intents handed to execute
ToolCalls == {NoneStr, SomeStr(<<>>), SomeStr(s_invoices), SomeStr(s_Invoices),
              SomeStr(s_accounts), SomeStr(s_items), SomeStr(s_nonexistent)}
Descriptions == {NoneStr, SomeStr(s_description)}
Intents ==
    {NewIntent(t, d, fs, u) :
        t \in ToolCalls, d \in Descriptions,
        fs \in SeqsUpTo(FilterPool, MaxFilters), u \in BOOLEAN}

NoIntent == NewIntent(NoneStr, NoneStr, <<>>, TRUE)

\* no collaborator call has raised / the call `call` raised f
NoFault == [call |-> "none", exc |-> "", msg |-> <<>>]
Fault(call, f) == [call |-> call, exc |-> f.exc, msg |-> f.msg]

\* no Intent object is held / the Intent object i, with whether its filter list
\* has been changed since it was constructed
NoObj == [exists |-> FALSE, i |-> NoIntent, changed |-> FALSE]
Obj(i, changed) == [exists |-> TRUE, i |-> i, changed |-> changed]

\* execute_tool has not returned / returned the error dict / returned the
\* decoded body of the response
NoToolResult == [kind |-> "none", error |-> <<>>, function |-> <<>>, data |-> ""]
ToolError(error, function) ==
    [kind |-> "error", error |-> error, function |-> function, data |-> ""]
ToolData(data) == [kind |-> "data", error |-> <<>>, function |-> <<>>, data |-> data]

\* the number of callback requests served side by side
MaxCallbacks == 2
Workers == 1..MaxCallbacks

\* no ExactOnlineAuthState row yet / the row authorize created, with whether
\* more than ten minutes have passed since created_at
NoAuthState == [exists |-> FALSE, is_used |-> FALSE, aged |-> FALSE]
IssuedAuthState == [exists |-> TRUE, is_used |-> FALSE, aged |-> FALSE]

\* a worker that serves no callback request
NoCallback == [at |-> "idle", state |-> "none", message |-> "none"]

\* 'No session available'
s_no_session == <<"N", "o", " ", "s", "e", "s", "s", "i", "o", "n", " ", "a", "v", "a", "i", "l", "a", "b", "l", "e">>
\* 'Exact API returned status '
s_returned_status == <<"E", "x", "a", "c", "t", " ", "A", "P", "I", " ", "r", "e", "t", "u", "r", "n", "e", "d", " ", "s", "t", "a", "t", "u", "s", " ">>
\* 'Internal server error'
s_internal_error == <<"I", "n", "t", "e", "r", "n", "a", "l", " ", "s", "e", "r", "v", "e", "r", " ", "e", "r", "r", "o", "r">>
\* 'Connection refused'
s_connection_refused == <<"C", "o", "n", "n", "e", "c", "t", "i", "o", "n", " ", "r", "e", "f", "u", "s", "e", "d">>

\* 'database is locked'
s_database_locked == <<"d", "a", "t", "a", "b", "a", "s", "e", " ", "i", "s", " ", "l", "o", "c", "k", "e", "d">>

\* a request to api_forwarder: whether the session has a key, the path and the
\* $filter query parameter (None: no query)
NoRequest == [has_session |-> FALSE, path |-> <<>>, query |-> NoneStr]

\* what a collaborator call of the view did: nothing yet, it returned (for
\* service.get: the response r), or it raised
NoOutcome == [kind |-> "none", r |-> NoResponse, exc |-> "", msg |-> <<>>]
ReturnedOutcome(r) == [kind |-> "returned", r |-> r, exc |-> "", msg |-> <<>>]
RaisedOutcome(f) == [kind |-> "raised", r |-> NoResponse, exc |-> f.exc, msg |-> f.msg]

\* JsonResponse(data, status=status): data is a dict, or the decoded upstream
\* body handed on as it is
NoJsonResponse == [status |-> 0, dict |-> [none |-> TRUE], upstream |-> ""]
JsonResponse(dict, status) == [status |-> status, dict |-> dict, upstream |-> ""]
JsonResponseOf(data) == [status |-> 200, dict |-> [none |-> TRUE], upstream |-> data]

\* the token the service holds after the OAuth callback and get_service: not
\* expired, current_division not stored yet
FreshToken == [expired |-> FALSE, has_division |-> FALSE, deleted |-> FALSE]

\* get has neither returned nor raised / returned the response r / raised
NoSvcResult == [state |-> "pending", status_code |-> 0, exc |-> ""]
SvcReturned(r) == [state |-> "returned", status_code |-> r.status_code, exc |-> ""]
SvcRaised(exc) == [state |-> "raised", status_code |-> 0, exc |-> exc]

\* one HTTP request of get as logged: the URL it went to (me, data or token),
\* the status of the response (0: the request raised) and, for a data request,
\* whether its body decodes as JSON and whether token.is_expired() held when
\* the response was handled
Logged(url, status_code, is_json, expired) ==
    [url |-> url, status_code |-> status_code, is_json |-> is_json, expired |-> expired]

\* no argument, no outcome yet
NoArg == [none |-> TRUE]
NoRet == Returned(<<>>)

Init ==
    /\ TOOL_CONFIG \in Catalogs
    /\ tools = GenerateTools(TOOL_CONFIG)
    /\ pc = "idle"
    /\ intent = NoIntent
    /\ validation = Returned(NoFailure)
    /\ api_endpoint = NoneStr
    /\ get_service_calls = 0
    /\ requests = <<>>
    /\ fault = NoFault
    /\ response = NoResponse
    /\ result = Pending
    /\ obj = NoObj
    /\ last_call = "none"
    /\ arg = NoArg
    /\ ret = NoRet
    /\ chat_pc = "idle"
    /\ user_intent = NoIntent
    /\ api_calls = <<>>
    /\ tool_result = NoToolResult
    /\ chat_reply = "none"
    /\ auth_state = NoAuthState
    /\ callbacks = [w \in Workers |-> NoCallback]
    /\ token_posts = <<>>
    /\ stored_tokens = 0
    /\ fwd_pc = "idle"
    /\ fwd_request = NoRequest
    /\ fwd_calls = <<>>
    /\ fwd_outcome = NoOutcome
    /\ fwd_response = NoJsonResponse
    /\ svc_pc = "idle"
    /\ token = FreshToken
    /\ http_log = <<>>
    /\ svc_result = NoSvcResult

\* execute(intent, session_key), up to the call of get_service: validation, then
\* inside the try the path resolution and the compilation of the filters
Execute(i) ==
    /\ pc = "idle"
    /\ intent' = i
    /\ LET validation_error == Validate(i, tools)
           url == GetUrl(tools, i)
       IN /\ validation' = validation_error
          /\ IF validation_error.raised
             THEN /\ result' = Escaped(validation_error.exc, validation_error.msg)
                  /\ pc' = "done"
                  /\ api_endpoint' = NoneStr
             ELSE IF ValidationBlocks(validation_error.v)
             THEN /\ result' = Return(validation_error.v)
                  /\ pc' = "done"
                  /\ api_endpoint' = NoneStr
             ELSE IF url.raised
             THEN /\ result' = ExceptHandler(url.msg, i, NoneStr)
                  /\ pc' = "done"
                  /\ api_endpoint' = NoneStr
             ELSE /\ result' = Pending
                  /\ pc' = "get_service"
                  /\ api_endpoint' = SomeStr(url.v)
    /\ UNCHANGED <<tools, get_service_calls, requests, fault, response>>
    /\ UNCHANGED <<objVars, otherVars>>

\* service = get_service(session_key): returns a service or raises
GetService ==
    /\ pc = "get_service"
    /\ get_service_calls' = get_service_calls + 1
    /\ \/ /\ pc' = "service_get"
          /\ UNCHANGED <<result, fault>>
       \/ \E f \in GetServiceFaults :
             /\ fault' = Fault("get_service", f)
             /\ result' = ExceptHandler(f.msg, intent, api_endpoint)
             /\ pc' = "done"
    /\ UNCHANGED <<tools, intent, validation, api_endpoint, requests, response>>
    /\ UNCHANGED <<objVars, otherVars>>

\* response = service.get(api_endpoint) and the rest of execute
ServiceGet ==
    /\ pc = "service_get"
    /\ requests' = Append(requests, api_endpoint.s)
    /\ \/ \E r \in Responses :
             /\ response' = r
             /\ fault' = IF IsSuccess(r.status_code) /\ r.json.raised
                         THEN Fault("response.json", r.json) ELSE fault
             /\ result' = HandleResponse(r, intent, api_endpoint.s)
             /\ pc' = AfterResponse(r)
       \/ \E f \in ServiceGetFaults :
             /\ fault' = Fault("service.get", f)
             /\ result' = ExceptHandler(f.msg, intent, api_endpoint)
             /\ pc' = "done"
             /\ UNCHANGED response
    /\ UNCHANGED <<tools, intent, validation, api_endpoint, get_service_calls>>
    /\ UNCHANGED <<objVars, otherVars>>

\* the caller has the result; the next call of execute starts afresh
Finish ==
    /\ pc = "done"
    /\ pc' = "idle"
    /\ intent' = NoIntent
    /\ validation' = Returned(NoFailure)
    /\ api_endpoint' = NoneStr
    /\ get_service_calls' = 0
    /\ requests' = <<>>
    /\ fault' = NoFault
    /\ response' = NoResponse
    /\ result' = Pending
    /\ UNCHANGED tools
    /\ UNCHANGED <<objVars, otherVars>>

Next ==
    \/ (pc = "idle" /\ \E i \in Intents : Execute(i))
    \/ GetService
    \/ ServiceGet
    \/ Finish

Spec == Init /\ [][Next]_vars

(***************************************************************************)
(* State machine of the operations a caller applies to an Intent object:   *)
(* construction, from_dict, the parser, the compiler, to_dict and changes  *)
(* of the filter list.                                                     *)
(***************************************************************************)
\* the filters of the Intents callers construct directly
ObjFilterPool ==
    FilterPool \cup
    { Filter(s_amount, "in", PyNone,
             SomeList(<<PyBool(FALSE), PyInt(-5), PyFloat(1005), PyStr(s_OBrien)>>)),
      Filter(s_status, "in", PyNone, SomeList(<<>>)) }

\* one Filter for each operator that ObjFilterPool does not use
OpFilterPool ==
    {Filter(s_amount, op, PyInt(1000), NoneList) : op \in {"ne", "ge", "lt", "le"}}
    \cup {Filter(s_status, op, PyStr(s_open), NoneList) : op \in {"startswith", "endswith"}}
    \cup {Filter(s_status, "is_not_null", PyNone, NoneList)}

\* the Intents callers construct directly
ObjIntents ==
    {NewIntent(t[1], t[2], fs, u) :
        t \in {<<NoneStr, NoneStr>>, <<SomeStr(s_invoices), SomeStr(s_description)>>},
        fs \in SeqsUpTo(ObjFilterPool, MaxFilters), u \in BOOLEAN}
    \cup {NewIntent(SomeStr(s_invoices), SomeStr(s_description), <<f>>, u) :
             f \in OpFilterPool, u \in BOOLEAN}

\* filter entries of a wire form or of the answer of the language model
EntryPool ==
    { [field |-> s_status, op |-> OpText("eq"), value |-> PyStr(s_open)],
      [field |-> s_status, op |-> OpText("in"),
       values |-> <<PyStr(s_open), PyStr(s_paid)>>],
      [field |-> s_status, op |-> OpText("in")],
      [field |-> s_amount, op |-> OpText("is_null")],
      [field |-> s_status, op |-> OpText("eq"), value |-> PyStr(s_open),
       values |-> <<PyStr(s_paid)>>],
      [field |-> s_status, op |-> s_like, value |-> PyStr(s_open)],
      [field |-> s_status, op |-> s_EQ, value |-> PyStr(s_open)],
      [op |-> OpText("eq"), value |-> PyStr(s_open)],
      [field |-> s_status, value |-> PyStr(s_open)] }

\* the filters callers put into the filter list of an Intent they hold
ChangePool ==
    { Filter(s_status, "eq", PyStr(s_open), NoneList),
      Filter(s_amount, "in", PyNone,
             SomeList(<<PyBool(FALSE), PyInt(-5), PyFloat(1005), PyStr(s_OBrien)>>)) }

\* the dicts handed to from_dict
WireDicts ==
    {[tool_call |-> SomeStr(s_invoices)], [description |-> SomeStr(s_description)]}
    \cup {[tool_call |-> SomeStr(s_invoices), description |-> SomeStr(s_description),
           filters |-> es] : es \in SeqsUpTo(EntryPool, MaxFilters)}

\* the content of the answer to the filter prompt: not JSON, or a JSON array
ResponseContents ==
    {[is_json |-> FALSE, filter_data |-> <<>>]}
    \cup {[is_json |-> TRUE, filter_data |-> es] : es \in SeqsUpTo(EntryPool, MaxFilters)}

\* Intent(tool_call=..., description=..., filters=..., use_in=...)
Construct(i) ==
    /\ last_call = "none"
    /\ obj' = Obj(i, FALSE)
    /\ last_call' = "__init__"
    /\ arg' = NoArg
    /\ ret' = NoRet
    /\ UNCHANGED <<tools, execVars, otherVars>>

\* Intent.from_dict(data): an Intent, or the call raises and there is none
CallFromDict(data) ==
    /\ last_call = "none"
    /\ LET r == FromDict(data)
       IN /\ ret' = r
          /\ obj' = IF r.raised THEN NoObj ELSE Obj(r.v, FALSE)
    /\ last_call' = "from_dict"
    /\ arg' = data
    /\ UNCHANGED <<tools, execVars, otherVars>>

\* IntentParser.parse_intent(message) with the answers of the two model calls
CallParseIntent(tool_call, response_content) ==
    /\ last_call = "none"
    /\ LET r == ParseIntent(s_message, tool_call, response_content)
       IN /\ ret' = Returned(r)
          /\ obj' = Obj(r, FALSE)
    /\ last_call' = "parse_intent"
    /\ arg' = response_content
    /\ UNCHANGED <<tools, execVars, otherVars>>

\* the operations that read the object without changing it
Reads == {"to_dict", "to_odata_filter_url", "to_odata", "_render_filter",
          "round_trip"}

\* the caller reads a freshly constructed or changed object (reading an object
\* twice in a row gives the same outcome: none of the reads changes it)
Readable == obj.exists /\ last_call \notin Reads

\* intent.to_dict()
CallToDict ==
    /\ Readable
    /\ ret' = IntentToDict(obj.i)
    /\ last_call' = "to_dict"
    /\ arg' = NoArg
    /\ UNCHANGED <<tools, execVars, otherVars, obj>>

\* intent.to_odata_filter_url()
CallToODataFilterUrl ==
    /\ Readable
    /\ ret' = ToODataFilterUrl(obj.i)
    /\ last_call' = "to_odata_filter_url"
    /\ arg' = NoArg
    /\ UNCHANGED <<tools, execVars, otherVars, obj>>

\* intent.to_odata() of the Intent of src/ask/services.py
CallToOData ==
    /\ Readable
    /\ ret' = ToOData(obj.i)
    /\ last_call' = "to_odata"
    /\ arg' = NoArg
    /\ UNCHANGED <<tools, execVars, otherVars, obj>>

\* intent._render_filter(f) for each filter f of the Intent
CallRenderFilter ==
    /\ Readable
    /\ ret' = Returned([k \in 1..Len(obj.i.filters) |->
                           RenderFilter(obj.i.use_in, obj.i.filters[k])])
    /\ last_call' = "_render_filter"
    /\ arg' = NoArg
    /\ UNCHANGED <<tools, execVars, otherVars, obj>>

\* Intent.from_dict(intent.to_dict())
RoundTrip ==
    /\ Readable
    /\ LET data == IntentToDict(obj.i)
       IN ret' = IF data.raised
                 THEN Raised(data.exc, data.msg, NoIntent)
                 ELSE FromDict(data.v)
    /\ last_call' = "round_trip"
    /\ arg' = NoArg
    /\ UNCHANGED <<tools, execVars, otherVars, obj>>

\* the object with its filter list replaced by filters
WithFilters(o, filters) ==
    Obj(NewIntent(o.i.tool_call, o.i.description, filters, o.i.use_in), TRUE)

\* intent.filters.append(f)
AppendFilter(f) ==
    /\ obj.exists
    /\ Len(obj.i.filters) < MaxFilters
    /\ obj' = WithFilters(obj, Append(obj.i.filters, f))
    /\ last_call' = "filters.append"
    /\ arg' = NoArg
    /\ ret' = NoRet
    /\ UNCHANGED <<tools, execVars, otherVars>>

\* del intent.filters[k]
RemoveFilter(k) ==
    /\ obj.exists
    /\ k \in 1..Len(obj.i.filters)
    /\ obj' = WithFilters(obj, SubSeq(obj.i.filters, 1, k - 1)
                               \o SubSeq(obj.i.filters, k + 1, Len(obj.i.filters)))
    /\ last_call' = "filters.remove"
    /\ arg' = NoArg
    /\ ret' = NoRet
    /\ UNCHANGED <<tools, execVars, otherVars>>

\* intent.filters[k] = f
ReplaceFilter(k, f) ==
    /\ obj.exists
    /\ k \in 1..Len(obj.i.filters)
    /\ obj' = WithFilters(obj, [obj.i.filters EXCEPT ![k] = f])
    /\ last_call' = "filters.replace"
    /\ arg' = NoArg
    /\ ret' = NoRet
    /\ UNCHANGED <<tools, execVars, otherVars>>

\* the caller drops the object, or the outcome of a constructor that raised
Discard ==
    /\ last_call # "none"
    /\ obj' = NoObj
    /\ last_call' = "none"
    /\ arg' = NoArg
    /\ ret' = NoRet
    /\ UNCHANGED <<tools, execVars, otherVars>>

NextIntent ==
    \/ (last_call = "none" /\ \E i \in ObjIntents : Construct(i))
    \/ (last_call = "none" /\ \E data \in WireDicts : CallFromDict(data))
    \/ (last_call = "none" /\ \E t \in {s_invoices, s_nonexistent}, c \in ResponseContents :
           CallParseIntent(t, c))
    \/ CallToDict
    \/ CallToODataFilterUrl
    \/ CallToOData
    \/ CallRenderFilter
    \/ RoundTrip
    \/ \E f \in ChangePool : AppendFilter(f)
    \/ \E k \in 1..MaxFilters : RemoveFilter(k)
    \/ \E k \in 1..MaxFilters, f \in ChangePool : ReplaceFilter(k, f)
    \/ Discard

\* no operation of this machine reads the registry: one registry is enough
InitIntent == Init /\ tools = GenerateTools(CatalogFull)

SpecIntent == InitIntent /\ [][NextIntent]_vars

(***************************************************************************)
(* The dispatch path of the chat view (src/ask/services.py):               *)
(* IntentFormer.chat, execute_user_intent, execute_tool, _call_exact_api.  *)
(***************************************************************************)
\* 'get_'
s_get_prefix == <<"g", "e", "t", "_">>
\* '/{division}/'
s_division_sep == <<"/", "{", "d", "i", "v", "i", "s", "i", "o", "n", "}", "/">>
\* 'Unknown endpoint: '
s_unknown_endpoint == <<"U", "n", "k", "n", "o", "w", "n", " ", "e", "n", "d", "p", "o", "i", "n", "t", ":", " ">>
\* 'Unknown function: '
s_unknown_function == <<"U", "n", "k", "n", "o", "w", "n", " ", "f", "u", "n", "c", "t", "i", "o", "n", ":", " ">>
\* 'API call failed: '
s_api_call_failed_colon == <<"A", "P", "I", " ", "c", "a", "l", "l", " ", "f", "a", "i", "l", "e", "d", ":", " ">>
\* ' - '
s_dash == <<" ", "-", " ">>

\* Intent.is_valid of src/ask/services.py: bool(tool_call and description)
IsValid(i) ==
    /\ ~i.tool_call.isNone /\ i.tool_call.s # <<>>
    /\ ~i.description.isNone /\ i.description.s # <<>>

\* the start of the first occurrence of sep in s (0: none)
Find(s, sep) ==
    LET starts == {k \in 1..(Len(s) - Len(sep) + 1) : SubSeq(s, k, k + Len(sep) - 1) = sep}
    IN IF starts = {} THEN 0 ELSE CHOOSE k \in starts : \A j \in starts : k <= j

RECURSIVE SplitLast(_, _)
\* s.split(sep)[-1]: what follows the last of the occurrences found from the left
SplitLast(s, sep) ==
    LET k == Find(s, sep)
    IN IF k = 0 THEN s ELSE SplitLast(SubSeq(s, k + Len(sep), Len(s)), sep)

\* the loop of execute_tool over TOOL_CONFIG.keys(): the first key whose
\* lower-cased form is endpoint_name, as an index (0: none)
FindEndpoint(config, endpoint_name) ==
    LET hits == {k \in 1..Len(config) : Lower(config[k].key) = endpoint_name}
    IN IF hits = {} THEN 0 ELSE CHOOSE k \in hits : \A j \in hits : k <= j

\* execute_tool up to the call of _call_exact_api: the catalog entry it found,
\* or the ValueError its own handler turns into the error dict
LookupEndpoint(config, function_name) ==
    IF StartsWith(function_name, s_get_prefix)
    THEN LET endpoint_name == SubSeq(function_name, 5, Len(function_name))
             k == FindEndpoint(config, endpoint_name)
         IN IF k = 0
            THEN Raised("ValueError", s_unknown_endpoint \o endpoint_name, 0)
            ELSE Returned(k)
    ELSE Raised("ValueError", s_unknown_function \o function_name, 0)

\* the uri of _call_exact_api as the default for an absent key
DefaultUri(endpoint_name) == s_division_prefix \o endpoint_name

\* _call_exact_api: endpoint_info.get('uri', default), then the part after the
\* division placeholder
ApiPath(endpoint_config) ==
    LET endpoint_info == endpoint_config.documentation.endpoint_info
        uri == IF endpoint_info.hasUri THEN endpoint_info.uri
               ELSE DefaultUri(endpoint_config.key)
    IN SplitLast(uri, s_division_sep)

\* execute_user_intent: the arguments, of which _call_exact_api copies "filter"
\* to params["$filter"]; None stands for no such parameter
FilterParam(i) ==
    IF i.filters = <<>> THEN Returned(NoneStr)
    ELSE LET odata == ToOData(i)
         IN IF odata.raised THEN Raised(odata.exc, odata.msg, NoneStr)
            ELSE Returned(SomeStr(odata.v))

\* the error _call_exact_api raises for a status other than 200
ApiCallFailed(r) ==
    s_api_call_failed_colon \o NatToStr(r.status_code) \o s_dash \o r.text

\* the rest of _call_exact_api once service.get returned r, as execute_tool
\* hands it back
ToolResultOf(r, function_name) ==
    IF r.status_code = 200
    THEN IF r.json.raised THEN ToolError(r.json.msg, function_name)
         ELSE ToolData(r.json.v)
    ELSE ToolError(ApiCallFailed(r), function_name)

\* what the model answers to the tool prompt, stripped
ToolAnswers ==
    {s_get_prefix \o s_invoices, s_get_prefix \o s_accounts, s_get_prefix \o s_items,
     s_get_prefix \o s_nonexistent, s_invoices, <<>>}

\* the user messages
Messages == {s_message, <<>>}

\* filter entries of the answer to the filter prompt
ChatEntryPool ==
    { [field |-> s_status, op |-> OpText("eq"), value |-> PyStr(s_open)],
      [field |-> s_bogus, op |-> OpText("eq"), value |-> PyStr(s_open)],
      [field |-> s_status, op |-> OpText("in")],
      [field |-> s_status, op |-> s_like, value |-> PyStr(s_open)] }

\* the content of the answer to the filter prompt
ChatResponseContents ==
    {[is_json |-> FALSE, filter_data |-> <<>>]}
    \cup {[is_json |-> TRUE, filter_data |-> es] : es \in SeqsUpTo(ChatEntryPool, MaxFilters)}

\* one call of get_service / of service.get, as recorded in api_calls
GetServiceCall == [fn |-> "get_service", path |-> <<>>, filter |-> NoneStr]
ServiceGetCall(path, filter) == [fn |-> "service.get", path |-> path, filter |-> filter]

\* IntentFormer.chat(message) up to the call of get_service: parse_intent with
\* the answers of the two model calls, is_valid, execute_user_intent and the
\* lookup of execute_tool
Chat(message, tool_call, response_content) ==
    /\ chat_pc = "idle"
    /\ LET i == ParseIntent(message, tool_call, response_content)
           filter == FilterParam(i)
           found == LookupEndpoint(TOOL_CONFIG, tool_call)
       IN /\ user_intent' = i
          /\ IF ~IsValid(i)
             THEN /\ chat_reply' = "not_understood"
                  /\ chat_pc' = "done"
                  /\ UNCHANGED tool_result
             ELSE IF filter.raised
             THEN /\ chat_reply' = "trouble"
                  /\ chat_pc' = "done"
                  /\ UNCHANGED tool_result
             ELSE IF found.raised
             THEN /\ tool_result' = ToolError(found.msg, tool_call)
                  /\ chat_pc' = "respond"
                  /\ UNCHANGED chat_reply
             ELSE /\ chat_pc' = "get_service"
                  /\ UNCHANGED <<tool_result, chat_reply>>
    /\ UNCHANGED <<api_calls, TOOL_CONFIG, tools, execVars, objVars, webVars>>

\* one of the model calls of parse_intent raises: the handler of chat answers
ChatModelFails ==
    /\ chat_pc = "idle"
    /\ chat_reply' = "trouble"
    /\ chat_pc' = "done"
    /\ UNCHANGED <<user_intent, api_calls, tool_result, TOOL_CONFIG, tools,
                   execVars, objVars, webVars>>

\* service = get_service(session_key) in _call_exact_api
ChatGetService ==
    /\ chat_pc = "get_service"
    /\ api_calls' = Append(api_calls, GetServiceCall)
    /\ \/ /\ chat_pc' = "service_get"
          /\ UNCHANGED tool_result
       \/ \E f \in GetServiceFaults :
             /\ tool_result' = ToolError(f.msg, user_intent.tool_call.s)
             /\ chat_pc' = "respond"
    /\ UNCHANGED <<user_intent, chat_reply, TOOL_CONFIG, tools, execVars, objVars, webVars>>

\* response = service.get(path, params=params) and the rest of _call_exact_api
ChatServiceGet ==
    /\ chat_pc = "service_get"
    /\ LET function_name == user_intent.tool_call.s
           endpoint_config == TOOL_CONFIG[LookupEndpoint(TOOL_CONFIG, function_name).v]
       IN /\ api_calls' = Append(api_calls, ServiceGetCall(ApiPath(endpoint_config),
                                                          FilterParam(user_intent).v))
          /\ \/ \E r \in Responses : tool_result' = ToolResultOf(r, function_name)
             \/ \E f \in ServiceGetFaults : tool_result' = ToolError(f.msg, function_name)
    /\ chat_pc' = "respond"
    /\ UNCHANGED <<user_intent, chat_reply, TOOL_CONFIG, tools, execVars, objVars, webVars>>

\* the model call that words the result: its answer is returned, or it raises
ChatRespond ==
    /\ chat_pc = "respond"
    /\ chat_reply' \in {"final", "trouble"}
    /\ chat_pc' = "done"
    /\ UNCHANGED <<user_intent, api_calls, tool_result, TOOL_CONFIG, tools,
                   execVars, objVars, webVars>>

\* the view has the reply; the next call of chat starts afresh
ChatFinish ==
    /\ chat_pc = "done"
    /\ chat_pc' = "idle"
    /\ user_intent' = NoIntent
    /\ api_calls' = <<>>
    /\ tool_result' = NoToolResult
    /\ chat_reply' = "none"
    /\ UNCHANGED <<TOOL_CONFIG, tools, execVars, objVars, webVars>>

NextChat ==
    \/ (chat_pc = "idle" /\ \E m \in Messages, t \in ToolAnswers,
                               c \in ChatResponseContents : Chat(m, t, c))
    \/ ChatModelFails
    \/ ChatGetService
    \/ ChatServiceGet
    \/ ChatRespond
    \/ ChatFinish

SpecChat == Init /\ [][NextChat]_vars

(***************************************************************************)
(* The OAuth callback view (src/exact_oauth/views.py), served by several   *)
(* workers side by side over one database.                                 *)
(***************************************************************************)
\* the query parameters of a callback request: whether error and code are
\* present, and the state (absent, the one authorize issued, or another)
CallbackRequests ==
    [error : BOOLEAN, code : BOOLEAN, state : {"absent", "issued", "other"}]

\* ExactOnlineAuthState.objects.get(state=state, is_used=False) finds the row
StateFound(state) == state = "issued" /\ auth_state.exists /\ ~auth_state.is_used

\* ExactOnlineAuthState.is_valid on a loaded row
IsValidAuthState(row) == ~row.is_used /\ ~row.aged

\* the worker w is at step at with the message given to the user
AtStep(w, at, state, message) ==
    [callbacks EXCEPT ![w] = [at |-> at, state |-> state, message |-> message]]

\* authorize: a fresh state is stored
Authorize ==
    /\ ~auth_state.exists
    /\ auth_state' = IssuedAuthState
    /\ UNCHANGED <<callbacks, token_posts, stored_tokens, coreVars, fwdVars, svcVars>>

\* more than ten minutes pass after created_at
StateAges ==
    /\ auth_state.exists /\ ~auth_state.aged
    /\ auth_state' = [auth_state EXCEPT !.aged = TRUE]
    /\ UNCHANGED <<callbacks, token_posts, stored_tokens, coreVars, fwdVars, svcVars>>

\* callback(request) up to the return of is_valid: the parameter checks, the
\* query for the unused state and the age check on the loaded row
CallbackLookup(w, req) ==
    /\ callbacks[w].at = "idle"
    /\ callbacks' =
          IF req.error THEN AtStep(w, "done", req.state, "OAuth error")
          ELSE IF ~req.code \/ req.state = "absent"
          THEN AtStep(w, "done", req.state, "Missing authorization code or state")
          ELSE IF ~StateFound(req.state)
          THEN AtStep(w, "done", req.state, "Invalid OAuth state")
          ELSE IF ~IsValidAuthState(auth_state)
          THEN AtStep(w, "done", req.state, "OAuth state expired")
          ELSE AtStep(w, "save", req.state, "none")
    /\ UNCHANGED <<auth_state, token_posts, stored_tokens, coreVars, fwdVars, svcVars>>

\* auth_state.is_used = True; auth_state.save()
CallbackSave(w) ==
    /\ callbacks[w].at = "save"
    /\ auth_state' = [auth_state EXCEPT !.is_used = TRUE]
    /\ callbacks' = AtStep(w, "post", callbacks[w].state, "none")
    /\ UNCHANGED <<token_posts, stored_tokens, coreVars, fwdVars, svcVars>>

\* requests.post to the token endpoint: status 200, another status, or a raise
CallbackPost(w) ==
    /\ callbacks[w].at = "post"
    /\ token_posts' = Append(token_posts, w)
    /\ \/ callbacks' = AtStep(w, "store", callbacks[w].state, "none")
       \/ callbacks' = AtStep(w, "done", callbacks[w].state, "Failed to get token")
       \/ callbacks' = AtStep(w, "done", callbacks[w].state, "Error")
    /\ UNCHANGED <<auth_state, stored_tokens, coreVars, fwdVars, svcVars>>

\* response.json(), get_or_create and set_token_data: the token is stored, or
\* the body is not JSON and the handler reports the error
CallbackStore(w) ==
    /\ callbacks[w].at = "store"
    /\ \/ /\ stored_tokens' = stored_tokens + 1
          /\ callbacks' = AtStep(w, "done", callbacks[w].state, "Successfully authorized!")
       \/ /\ callbacks' = AtStep(w, "done", callbacks[w].state, "Error")
          /\ UNCHANGED stored_tokens
    /\ UNCHANGED <<auth_state, token_posts, coreVars, fwdVars, svcVars>>

\* the redirect to the status page is returned; the worker takes the next request
CallbackReturn(w) ==
    /\ callbacks[w].at = "done"
    /\ callbacks' = [callbacks EXCEPT ![w] = NoCallback]
    /\ UNCHANGED <<auth_state, token_posts, stored_tokens, coreVars, fwdVars, svcVars>>

NextCallback ==
    \/ Authorize
    \/ StateAges
    \/ \E w \in Workers, req \in CallbackRequests : CallbackLookup(w, req)
    \/ \E w \in Workers : CallbackSave(w)
    \/ \E w \in Workers : CallbackPost(w)
    \/ \E w \in Workers : CallbackStore(w)
    \/ \E w \in Workers : CallbackReturn(w)

SpecCallback == Init /\ [][NextCallback]_vars

(***************************************************************************)
(* The view api_forwarder (src/ask/views.py).                              *)
(***************************************************************************)
\* the requests to api_forwarder
ForwarderRequests ==
    [has_session : BOOLEAN, path : {s_uri_no_slash, s_uri_invoices, s_uri_accounts},
     query : {NoneStr, SomeStr(s_status \o s_eq \o s_true)}]

\* what get_service may raise in the view: the ValueError of the service, or an
\* error of the database
ForwarderServiceFaults ==
    GetServiceFaults \cup {[exc |-> "OperationalError", msg |-> s_database_locked]}

\* what service.get may raise in the view: the ValueErrors of the service, the
\* decoding error of a first response that is not JSON, or an error of the HTTP
\* library
ForwarderGetFaults ==
    ServiceGetFaults \cup JsonFaults
    \cup {[exc |-> "ConnectionError", msg |-> s_connection_refused]}

\* mutant of IsValueError: the error of a body that is not JSON is not counted
IsValueError_Exact(exc) == exc = "ValueError"

\* the exception classes that `except ValueError` catches
IsValueError(exc) == exc \in {"ValueError", "JSONDecodeError"}

\* the two handlers of api_forwarder
ForwarderExcept(exc, msg) ==
    IF IsValueError(exc) THEN JsonResponse([error |-> msg], 400)
    ELSE JsonResponse([error |-> s_internal_error], 500)

\* api_forwarder once service.get returned r
ForwardResponse(r) ==
    IF r.status_code = 200
    THEN IF r.json.raised
         THEN ForwarderExcept(r.json.exc, r.json.msg)
         ELSE JsonResponseOf(r.json.v)
    ELSE JsonResponse([error |-> s_returned_status \o NatToStr(r.status_code),
                       details |-> r.text],
                      r.status_code)

\* mutant of SessionMissing: the session key is never found missing
SessionMissing_Never(request) == FALSE

\* `if not session_key:`
SessionMissing(request) == ~request.has_session

\* api_forwarder(request, path) up to the call of get_service
Forward(request) ==
    /\ fwd_pc = "idle"
    /\ fwd_request' = request
    /\ IF SessionMissing(request)
       THEN /\ fwd_response' = JsonResponse([error |-> s_no_session], 401)
            /\ fwd_pc' = "done"
       ELSE /\ fwd_pc' = "get_service"
            /\ UNCHANGED fwd_response
    /\ UNCHANGED <<fwd_calls, fwd_outcome, coreVars, cbVars, svcVars>>

\* service = get_service(session_key)
ForwardGetService ==
    /\ fwd_pc = "get_service"
    /\ fwd_calls' = Append(fwd_calls, "get_service")
    /\ \/ /\ fwd_pc' = "service_get"
          /\ fwd_outcome' = ReturnedOutcome(NoResponse)
          /\ UNCHANGED fwd_response
       \/ \E f \in ForwarderServiceFaults :
             /\ fwd_outcome' = RaisedOutcome(f)
             /\ fwd_response' = ForwarderExcept(f.exc, f.msg)
             /\ fwd_pc' = "done"
    /\ UNCHANGED <<fwd_request, coreVars, cbVars, svcVars>>

\* response = service.get(path, params=query_params) and the rest of the view
ForwardServiceGet ==
    /\ fwd_pc = "service_get"
    /\ fwd_calls' = Append(fwd_calls, "service.get")
    /\ \/ \E r \in Responses :
             /\ fwd_outcome' = ReturnedOutcome(r)
             /\ fwd_response' = ForwardResponse(r)
       \/ \E f \in ForwarderGetFaults :
             /\ fwd_outcome' = RaisedOutcome(f)
             /\ fwd_response' = ForwarderExcept(f.exc, f.msg)
    /\ fwd_pc' = "done"
    /\ UNCHANGED <<fwd_request, coreVars, cbVars, svcVars>>

\* the response has been sent; the next request is served afresh
ForwardFinish ==
    /\ fwd_pc = "done"
    /\ fwd_pc' = "idle"
    /\ fwd_request' = NoRequest
    /\ fwd_calls' = <<>>
    /\ fwd_outcome' = NoOutcome
    /\ fwd_response' = NoJsonResponse
    /\ UNCHANGED <<coreVars, cbVars, svcVars>>

NextForwarder ==
    \/ \E request \in ForwarderRequests : Forward(request)
    \/ ForwardGetService
    \/ ForwardServiceGet
    \/ ForwardFinish

SpecForwarder == Init /\ [][NextForwarder]_vars

(***************************************************************************)
(* ExactOnlineService.get (src/exact_oauth/services.py).                   *)
(***************************************************************************)
\* the statuses of the token endpoint: refreshed, refresh token rejected, other
RefreshStatuses == {200, 400, 500}

\* mutant of ShouldRetry: every 401 is retried after a refresh
ShouldRetry_Any401(status_code, expired) == status_code = 401

\* `if response.status_code == 401:` and `if self.token.is_expired():`
ShouldRetry(status_code, expired) == status_code = 401 /\ expired

\* the stored expires_at passes
TokenExpires ==
    /\ ~token.expired /\ ~token.deleted
    /\ token' = [token EXCEPT !.expired = TRUE]
    /\ UNCHANGED <<svc_pc, http_log, svc_result, coreVars, cbVars, fwdVars>>

\* get(endpoint, params) up to the first HTTP request: _ensure_user_info asks
\* for the division only when none is stored
Get ==
    /\ svc_pc = "idle"
    /\ ~token.deleted
    /\ svc_pc' = IF token.has_division THEN "data" ELSE "me"
    /\ UNCHANGED <<token, http_log, svc_result, coreVars, cbVars, fwdVars>>

\* the request to current/Me of _ensure_user_info: on 200 the division of the
\* first result is stored, if there is one; another status raises ValueError;
\* the request itself may raise
MeRequest ==
    /\ svc_pc = "me"
    /\ \/ \E with_results \in BOOLEAN :
             /\ http_log' = Append(http_log, Logged("me", 200, TRUE, token.expired))
             /\ token' = [token EXCEPT !.has_division = with_results]
             /\ svc_pc' = "data"
             /\ UNCHANGED svc_result
       \/ \E s \in StatusCodes \ {200} :
             /\ http_log' = Append(http_log, Logged("me", s, TRUE, token.expired))
             /\ svc_result' = SvcRaised("ValueError")
             /\ svc_pc' = "done"
             /\ UNCHANGED token
       \/ /\ http_log' = Append(http_log, Logged("me", 0, FALSE, token.expired))
          /\ svc_result' = SvcRaised("ConnectionError")
          /\ svc_pc' = "done"
          /\ UNCHANGED token
    /\ UNCHANGED <<coreVars, cbVars, fwdVars>>

\* the first request to the data URL, the decoding of its body for the log
\* line, and the test for the retry
DataRequest ==
    /\ svc_pc = "data"
    /\ \/ \E r \in Responses :
             /\ http_log' = Append(http_log, Logged("data", r.status_code,
                                                    ~r.json.raised, token.expired))
             /\ IF r.json.raised
                THEN /\ svc_result' = SvcRaised(r.json.exc)
                     /\ svc_pc' = "done"
                ELSE IF ShouldRetry(r.status_code, token.expired)
                THEN /\ svc_pc' = "refresh"
                     /\ UNCHANGED svc_result
                ELSE /\ svc_result' = SvcReturned(r)
                     /\ svc_pc' = "done"
       \/ /\ http_log' = Append(http_log, Logged("data", 0, FALSE, token.expired))
          /\ svc_result' = SvcRaised("ConnectionError")
          /\ svc_pc' = "done"
    /\ UNCHANGED <<token, coreVars, cbVars, fwdVars>>

\* _refresh_token: on 200 the new token data are stored, on 400 the token is
\* deleted; every status but 200, and a failed request, raise ValueError
RefreshToken ==
    /\ svc_pc = "refresh"
    /\ \/ \E s \in RefreshStatuses :
             /\ http_log' = Append(http_log, Logged("token", s, TRUE, token.expired))
             /\ token' = IF s = 200 THEN [token EXCEPT !.expired = FALSE]
                         ELSE IF s = 400 THEN [token EXCEPT !.deleted = TRUE]
                         ELSE token
             /\ IF s = 200
                THEN /\ svc_pc' = "retry"
                     /\ UNCHANGED svc_result
                ELSE /\ svc_result' = SvcRaised("ValueError")
                     /\ svc_pc' = "done"
       \/ /\ http_log' = Append(http_log, Logged("token", 0, FALSE, token.expired))
          /\ svc_result' = SvcRaised("ValueError")
          /\ svc_pc' = "done"
          /\ UNCHANGED token
    /\ UNCHANGED <<coreVars, cbVars, fwdVars>>

\* the second request to the data URL: its response is returned as it is
RetryRequest ==
    /\ svc_pc = "retry"
    /\ \/ \E r \in Responses :
             /\ http_log' = Append(http_log, Logged("data", r.status_code,
                                                    ~r.json.raised, token.expired))
             /\ svc_result' = SvcReturned(r)
       \/ /\ http_log' = Append(http_log, Logged("data", 0, FALSE, token.expired))
          /\ svc_result' = SvcRaised("ConnectionError")
    /\ svc_pc' = "done"
    /\ UNCHANGED <<token, coreVars, cbVars, fwdVars>>

\* the caller has the outcome; the service object serves the next call
GetFinish ==
    /\ svc_pc = "done"
    /\ svc_pc' = "idle"
    /\ http_log' = <<>>
    /\ svc_result' = NoSvcResult
    /\ UNCHANGED <<token, coreVars, cbVars, fwdVars>>

NextService ==
    \/ TokenExpires
    \/ Get
    \/ MeRequest
    \/ DataRequest
    \/ RefreshToken
    \/ RetryRequest
    \/ GetFinish

SpecService == Init /\ [][NextService]_vars

(***************************************************************************)
(* Properties.                                                             *)
(***************************************************************************)
\* the Intent names a tool_call that is neither None nor empty
HasToolCall == ~intent.tool_call.isNone /\ intent.tool_call.s # <<>>

\* the tool_call is the name of a registered tool
ToolRegistered ==
    HasToolCall /\ \E i \in 1..Len(tools) : tools[i].name = intent.tool_call.s

\* validate returned None
Validated == ~validation.raised /\ validation.v = NoFailure

\* validate returned a failure
ValidationFailed == ~validation.raised /\ "error" \in DOMAIN validation.v

\* service.get returned a response in this call
GotResponse == response # NoResponse

\* C1: when validate returns a failure, execute returns exactly that failure and
\* neither get_service nor service.get has been invoked.
C1_ValidationPrecedesNetwork ==
    ValidationFailed =>
        /\ pc = "done"
        /\ result = Return(validation.v)
        /\ get_service_calls = 0
        /\ requests = <<>>

\* C1 witness: execute has ended on an invalid-field failure.
C1_Witness ==
    /\ pc = "done"
    /\ ValidationFailed
    /\ "invalid_fields" \in DOMAIN validation.v

\* C2: execute never raises; it ends with a result dict that is a validation
\* failure, an endpoint failure (both carry error) or a success envelope.
C2_ExecuteNeverRaises ==
    pc = "done" =>
        /\ result.state = "returned"
        /\ ("error" \in DOMAIN result.d \/ "success" \in DOMAIN result.d)

\* C3: validate never raises; it returns None or a failure dict with an error key.
C3_ValidateIsTotal ==
    /\ ~validation.raised
    /\ (validation.v = NoFailure \/ "error" \in DOMAIN validation.v)

\* C4: for a non-empty tool_call that is no registered name, validate returns a
\* failure whose available_tools lists all registered names, is non-empty and
\* does not hold the requested name, and whose requested_tool is the tool_call.
C4_UnknownToolFailure ==
    (HasToolCall /\ ~ToolRegistered) =>
        /\ ~validation.raised
        /\ {"error", "available_tools", "requested_tool"} \subseteq DOMAIN validation.v
        /\ validation.v.available_tools = [i \in 1..Len(tools) |-> tools[i].name]
        /\ validation.v.available_tools # <<>>
        /\ intent.tool_call.s \notin Range(validation.v.available_tools)
        /\ validation.v.requested_tool = intent.tool_call.s

\* C4 witness: validate has judged an Intent for the unregistered tool nonexistent.
C4_Witness ==
    /\ pc = "done"
    /\ intent.tool_call = SomeStr(s_nonexistent)
    /\ ValidationFailed

\* the field schema of the registered tool the Intent targets
TargetFields == tools[CHOOSE i \in 1..Len(tools) : tools[i].name = intent.tool_call.s].fields

\* seq is strictly increasing in str order
IsSortedStrs(seq) == \A i \in 1..(Len(seq) - 1) : StrLess(seq[i], seq[i + 1])

\* C5: for an Intent with filters that targets a registered tool, validate
\* returns an invalid-field failure iff some filter field is no key of the tool's
\* schema; invalid_fields then holds exactly the filter fields absent from the
\* schema and available_fields is the sorted list of the schema keys.
C5_InvalidFieldFailure ==
    (pc = "done" /\ ToolRegistered /\ intent.filters # <<>>) =>
        /\ ~validation.raised
        /\ ~TargetFields.isNone =>
              LET keys == {TargetFields.items[i].name : i \in 1..Len(TargetFields.items)}
                  absent == {intent.filters[i].field : i \in 1..Len(intent.filters)} \ keys
              IN /\ "invalid_fields" \in DOMAIN validation.v <=> absent # {}
                 /\ absent # {} =>
                       /\ Range(validation.v.invalid_fields) = absent
                       /\ Range(validation.v.available_fields) = keys
                       /\ IsSortedStrs(validation.v.available_fields)

\* C6: the checks run in the order missing tool, unknown tool, invalid fields and
\* only the first failure is reported: a missing or empty tool_call gives the
\* missing-tool failure whatever the filters, an unknown tool gives the
\* unknown-tool failure without invalid_fields whatever the filters.
C6_ChecksInOrder ==
    pc = "done" =>
        /\ ~HasToolCall =>
              /\ ~validation.raised
              /\ validation.v = [error |-> s_missing_tool_call]
        /\ (HasToolCall /\ ~ToolRegistered) =>
              /\ ~validation.raised
              /\ "requested_tool" \in DOMAIN validation.v
              /\ "invalid_fields" \notin DOMAIN validation.v

\* C6 witness: an Intent with an empty tool_call and a filter on a field that no
\* schema holds has been validated.
C6_Witness ==
    /\ pc = "done"
    /\ intent.tool_call = SomeStr(<<>>)
    /\ \E i \in 1..Len(intent.filters) : intent.filters[i].field = s_bogus

\* the error result for a response with a status other than 200
StatusErrorExpected ==
    Return([error |-> s_api_call_failed \o IntToStr(response.status_code),
            details |-> response.text,
            endpoint |-> SomeStr(requests[1])])

\* C7 as stated: when the call reached the collaborator and a response came
\* back, the result is a success envelope iff the status is 200; any other
\* status gives the error result with status, text and endpoint, without success.
C7_SuccessIffStatus200 ==
    (pc = "done" /\ GotResponse) =>
        /\ "success" \in DOMAIN result.d <=> response.status_code = 200
        /\ response.status_code # 200 => result = StatusErrorExpected

\* C7 amended: the result is a success envelope iff the status is 200 and
\* response.json() returns; any other status gives the error result with status,
\* text and endpoint, and a 200 whose json() raises gives an error result too.
C7_SuccessIffStatus200AndJson ==
    (pc = "done" /\ GotResponse) =>
        /\ "success" \in DOMAIN result.d
              <=> (response.status_code = 200 /\ ~response.json.raised)
        /\ response.status_code # 200 => result = StatusErrorExpected
        /\ (response.status_code = 200 /\ response.json.raised) =>
              /\ result.state = "returned"
              /\ "error" \in DOMAIN result.d

\* C7 witness: a response with another 2xx status has been handled.
C7_Witness ==
    /\ pc = "done"
    /\ GotResponse
    /\ response.status_code = 201

\* the success envelope the claim describes
SuccessExpected ==
    /\ result.state = "returned"
    /\ DOMAIN result.d = {"success", "data", "intent", "endpoint", "filters_applied"}
    /\ result.d.success = TRUE
    /\ ~response.json.raised => result.d.data = response.json.v
    /\ result.d.intent.tool_call = intent.tool_call
    /\ result.d.intent.description = intent.description
    /\ result.d.intent.filters
          = [i \in 1..Len(intent.filters) |-> FilterToDict(intent.filters[i])]
    /\ result.d.intent.odata_filter = ToODataFilterUrl(intent).v
    /\ result.d.endpoint = SomeStr(requests[1])
    /\ result.d.filters_applied = (intent.filters # <<>>)

\* C8 as stated: on a status-200 response the result is the success envelope:
\* success true, data the JSON payload, intent the wire form of the Intent,
\* endpoint the path passed to service.get, filters_applied iff there are filters.
C8_SuccessEnvelopeOn200 ==
    (pc = "done" /\ GotResponse /\ response.status_code = 200) => SuccessExpected

\* C8 amended: the same, on a status-200 response whose json() returns a payload.
C8_SuccessEnvelopeOn200WithPayload ==
    (pc = "done" /\ GotResponse /\ response.status_code = 200 /\ ~response.json.raised)
        => SuccessExpected

\* C8 witness: a 200 response with a payload for an Intent with filters.
C8_Witness ==
    /\ pc = "done"
    /\ GotResponse
    /\ response.status_code = 200
    /\ ~response.json.raised
    /\ intent.filters # <<>>

\* C9: within one call service.get (and get_service) is invoked at most once,
\* and exactly once when validation passed, the path resolved, the filters
\* compiled and get_service returned.
C9_AtMostOneGet ==
    /\ Len(requests) <= 1
    /\ get_service_calls <= 1
    /\ (/\ pc = "done"
        /\ Validated
        /\ ~GetCleanEndpoint(tools, intent).raised
        /\ ~ToODataFilterUrl(intent).raised
        /\ fault.call # "get_service") => Len(requests) = 1

\* C9 witness: the one request has been answered with 401.
C9_Witness ==
    /\ pc = "done"
    /\ Len(requests) = 1
    /\ response.status_code = 401

\* C10: when get_service, service.get or response.json raised, execute returns
\* the error result with the fault message, the echo of the Intent and the
\* resolved path (which all three faults follow); when the path did not resolve
\* the error result has endpoint null.
C10_FaultResult ==
    pc = "done" =>
        /\ fault.call \in {"get_service", "service.get", "response.json"} =>
              result = Return([error |-> s_execution_failed \o fault.msg,
                               intent |-> IntentToDict(intent).v,
                               endpoint |-> SomeStr(GetUrl(tools, intent).v)])
        /\ (Validated /\ GetCleanEndpoint(tools, intent).raised
              /\ result.state = "returned") =>
              /\ "error" \in DOMAIN result.d
              /\ result.d.endpoint = NoneStr

\* C10 witness: get_service raised after the path had been resolved.
C10_Witness ==
    /\ pc = "done"
    /\ fault.call = "get_service"
    /\ ~api_endpoint.isNone

\* sub occurs in s
Contains(s, sub) ==
    \E k \in 1..(Len(s) - Len(sub) + 1) : SubSeq(s, k, k + Len(sub) - 1) = sub

\* '$filter'
s_dollar_filter == <<"$", "f", "i", "l", "t", "e", "r">>

\* C11: for an Intent with no filters the compiled fragment is the empty string
\* and the path handed to service.get is exactly the clean endpoint of the tool,
\* without a $filter parameter.
C11_EmptyFiltersNoQuery ==
    (intent.filters = <<>> /\ requests # <<>>) =>
        /\ Len(requests) = 1
        /\ requests[1] = GetCleanEndpoint(tools, intent).v
        /\ ~Contains(requests[1], s_dollar_filter)
        /\ api_endpoint = SomeStr(requests[1])
        /\ (result.state = "returned" /\ "intent" \in DOMAIN result.d)
              => result.d.intent.odata_filter = <<>>

\* C11 witness: a call for an Intent without filters has ended in success.
C11_Witness ==
    /\ pc = "done"
    /\ intent.filters = <<>>
    /\ requests # <<>>
    /\ result.state = "returned"
    /\ "success" \in DOMAIN result.d

\* the value of a hexadecimal digit
HexValue(c) == IF Ord(c) \in 48..57 THEN Ord(c) - 48 ELSE Ord(c) - 55

\* the text a percent-encoded text stands for (urllib.parse.unquote)
UrlUnquote(s) ==
    Concat([i \in 1..Len(s) |->
               IF s[i] = "%" THEN <<Chr(16 * HexValue(s[i + 1]) + HexValue(s[i + 2]))>>
               ELSE IF (i > 1 /\ s[i - 1] = "%") \/ (i > 2 /\ s[i - 2] = "%") THEN <<>>
               ELSE <<s[i]>>])

\* every filter of the object renders
AllRender ==
    \A k \in 1..Len(obj.i.filters) :
        ~RenderFilter(obj.i.use_in, obj.i.filters[k]).raised

RECURSIVE AndOfFirst(_, _)
\* (r1) and (r2) and ... and (rn) for the renderings of the first n filters
AndOfFirst(i, n) ==
    LET rn == RenderFilter(i.use_in, i.filters[n]).v
    IN IF n = 1 THEN <<"(">> \o rn \o <<")">>
       ELSE AndOfFirst(i, n - 1) \o <<" ", "a", "n", "d", " ", "(">> \o rn \o <<")">>

\* the compiled expression of the current call: what to_odata returned, or what
\* the fragment of to_odata_filter_url decodes to
CompiledExpression ==
    IF last_call = "to_odata" THEN ret.v
    ELSE UrlUnquote(SubSeq(ret.v, Len(s_filter_marker) + 1, Len(ret.v)))

\* C12: for filters f1..fn, n >= 1, the compiled expression is
\* (r1) and (r2) and ... and (rn): every rendering in its own parentheses,
\* joined by " and ", none dropped or merged, in the order of the list.
C12_AndOfParenthesized ==
    (/\ last_call \in {"to_odata", "to_odata_filter_url"}
     /\ obj.i.filters # <<>>
     /\ AllRender) =>
        /\ ~ret.raised
        /\ CompiledExpression = AndOfFirst(obj.i, Len(obj.i.filters))

\* C12 witness: two filters on the same field have been compiled into a fragment.
C12_Witness ==
    /\ last_call = "to_odata_filter_url"
    /\ ~ret.raised
    /\ Len(obj.i.filters) >= 2
    /\ obj.i.filters[1].field = obj.i.filters[2].field
    /\ obj.i.filters[1] # obj.i.filters[2]

RECURSIVE CommaList(_, _)
\* q(v1), ..., q(vn) for the first n values of vs
CommaList(vs, n) ==
    IF n = 0 THEN <<>>
    ELSE IF n = 1 THEN Quote(vs[1])
    ELSE CommaList(vs, n - 1) \o <<",", " ">> \o Quote(vs[n])

RECURSIVE OrList(_, _, _)
\* field eq q(v1) or ... or field eq q(vn) for the first n values of vs
OrList(field, vs, n) ==
    LET term == field \o <<" ", "e", "q", " ">> \o Quote(vs[n])
    IN IF n = 0 THEN <<>>
       ELSE IF n = 1 THEN term
       ELSE OrList(field, vs, n - 1) \o <<" ", "o", "r", " ">> \o term

\* the k-th filter of the object is a membership filter that carries a list
IsMembership(k) ==
    /\ obj.i.filters[k].op = "in"
    /\ ~obj.i.filters[k].values.isNone

\* C13: a membership filter with values v1..vn renders as
\* <field> in (q(v1), ..., q(vn)) in the native mode and as
\* (<field> eq q(v1) or ... or <field> eq q(vn)) in the OR-fallback mode, the
\* values in input order.
C13_MembershipRendering ==
    last_call = "_render_filter" =>
        \A k \in 1..Len(obj.i.filters) :
            IsMembership(k) =>
                LET f == obj.i.filters[k]
                    vs == f.values.items
                IN /\ ~ret.v[k].raised
                   /\ ret.v[k].v =
                         IF obj.i.use_in
                         THEN f.field \o <<" ", "i", "n", " ", "(">>
                              \o CommaList(vs, Len(vs)) \o <<")">>
                         ELSE <<"(">> \o OrList(f.field, vs, Len(vs)) \o <<")">>

\* C13 witness: a membership filter with several values has been rendered in
\* the OR-fallback mode.
C13_Witness ==
    /\ last_call = "_render_filter"
    /\ ~obj.i.use_in
    /\ \E k \in 1..Len(obj.i.filters) :
          /\ IsMembership(k)
          /\ Len(obj.i.filters[k].values.items) >= 2
          /\ ~ret.v[k].raised

\* the decimal digits of a natural number, most significant first
Digits(n) ==
    LET len == CHOOSE k \in 1..9 : (k = 1 \/ 10 ^ (k - 1) <= n) /\ n < 10 ^ k
    IN [k \in 1..len |-> Chr(48 + ((n \div (10 ^ (len - k))) % 10))]

\* bare decimal text of an integer, and of a float given in tenths
DecimalText(value) ==
    LET m == IF value.n < 0 THEN -value.n ELSE value.n
        sign == IF value.n < 0 THEN <<"-">> ELSE <<>>
    IN IF value.kind = "int" THEN sign \o Digits(m)
       ELSE sign \o Digits(m \div 10) \o <<".">> \o Digits(m % 10)

RECURSIVE Doubled(_)
\* the text with every single quote doubled
Doubled(text) ==
    IF text = <<>> THEN <<>>
    ELSE (IF Head(text) = "'" THEN <<"'", "'">> ELSE <<Head(text)>>)
         \o Doubled(Tail(text))

\* the literal the quoting rule prescribes for a value
Literal(value) ==
    IF value.kind = "bool"
    THEN (IF value.b THEN <<"t", "r", "u", "e">> ELSE <<"f", "a", "l", "s", "e">>)
    ELSE IF value.kind \in {"int", "float"} THEN DecimalText(value)
    ELSE <<"'">> \o Doubled(value.s) \o <<"'">>

\* the rendering of a filter that embeds values, with each value as its literal
RenderingWithLiterals(use_in, f) ==
    IF f.op = "in"
    THEN LET lits == [j \in 1..Len(f.values.items) |-> Literal(f.values.items[j])]
         IN IF use_in
            THEN f.field \o <<" ", "i", "n", " ", "(">>
                 \o Join(<<",", " ">>, lits) \o <<")">>
            ELSE <<"(">>
                 \o Join(<<" ", "o", "r", " ">>,
                         [j \in 1..Len(lits) |->
                             f.field \o <<" ", "e", "q", " ">> \o lits[j]])
                 \o <<")">>
    ELSE IF f.op \in {"contains", "startswith", "endswith"}
    THEN OpText(f.op) \o <<"(">> \o f.field \o <<",", " ">>
         \o Literal(f.value) \o <<")">>
    ELSE f.field \o <<" ">> \o OpText(f.op) \o <<" ">> \o Literal(f.value)

\* the k-th filter of the object embeds at least one value, none of them None
EmbedsValues(k) ==
    LET f == obj.i.filters[k]
    IN IF f.op = "in" THEN ~f.values.isNone
       ELSE /\ f.op \notin {"is_null", "is_not_null"}
            /\ f.value.kind # "none"

\* C14: in comparison, membership and text renderings alike a boolean is the
\* bare true / false, an integer or a float is bare decimal text, and any other
\* value is a single-quoted literal with every embedded single quote doubled.
C14_ValueQuoting ==
    last_call = "_render_filter" =>
        \A k \in 1..Len(obj.i.filters) :
            EmbedsValues(k) =>
                /\ ~ret.v[k].raised
                /\ ret.v[k].v = RenderingWithLiterals(obj.i.use_in, obj.i.filters[k])

\* C14 witness: O'Brien in a text operator and a list holding a boolean, an
\* integer, a float and O'Brien have been rendered, next to a comparison.
C14_Witness ==
    /\ last_call = "_render_filter"
    /\ \E k \in 1..Len(obj.i.filters) :
          /\ obj.i.filters[k].op = "contains"
          /\ obj.i.filters[k].value = PyStr(s_OBrien)
          /\ Contains(ret.v[k].v, <<"O", "'", "'", "B">>)
    /\ \E k \in 1..Len(obj.i.filters) :
          /\ IsMembership(k)
          /\ PyBool(FALSE) \in Range(obj.i.filters[k].values.items)
          /\ PyFloat(1005) \in Range(obj.i.filters[k].values.items)

\* the fragment of the end-to-end scenario
s_e2e_fragment == <<"?", "$", "f", "i", "l", "t", "e", "r", "=", "%", "2", "8", "s", "t", "a", "t", "u", "s", "%", "2", "0", "e", "q", "%", "2", "0", "%", "2", "7", "o", "p", "e", "n", "%", "2", "7", "%", "2", "9", "%", "2", "0", "a", "n", "d", "%", "2", "0", "%", "2", "8", "a", "m", "o", "u", "n", "t", "%", "2", "0", "g", "t", "%", "2", "0", "1", "0", "0", "0", "%", "2", "9">>

\* the Intent of the end-to-end scenario is being executed against a registry
\* whose tool invoices has the fields status and amount
EndToEndScenario ==
    /\ pc # "idle"
    /\ intent.tool_call = SomeStr(s_invoices)
    /\ intent.filters = << Filter(s_status, "eq", PyStr(s_open), NoneList),
                           Filter(s_amount, "gt", PyInt(1000), NoneList) >>
    /\ \E k \in 1..Len(tools) :
          /\ tools[k].name = s_invoices
          /\ ~tools[k].fields.isNone
          /\ {tools[k].fields.items[j].name : j \in 1..Len(tools[k].fields.items)}
                = {s_status, s_amount}

\* the call has returned a result that echoes the Intent
EchoesIntent == result.state = "returned" /\ "intent" \in DOMAIN result.d

\* C15: the fragment of a non-empty filter list is ?$filter= followed by the
\* percent-encoding of the compiled expression, with no space, parenthesis or
\* single quote left in it; the Intent of the end-to-end scenario validates and
\* compiles to the fragment given in the scenario.
C15_EncodedFragment ==
    /\ (EchoesIntent /\ intent.filters # <<>>) =>
          LET fragment == result.d.intent.odata_filter
              encoded == SubSeq(fragment, Len(s_dollar_filter) + 3, Len(fragment))
          IN /\ SubSeq(fragment, 1, Len(s_dollar_filter) + 2)
                   = <<"?">> \o s_dollar_filter \o <<"=">>
             /\ Range(encoded) \cap {" ", "(", ")", "'"} = {}
             /\ UrlUnquote(encoded) = ToOData(intent).v
             /\ ~api_endpoint.isNone =>
                   api_endpoint.s = GetCleanEndpoint(tools, intent).v \o fragment
    /\ EndToEndScenario =>
          /\ Validated
          /\ api_endpoint.s = GetCleanEndpoint(tools, intent).v \o s_e2e_fragment
          /\ EchoesIntent => result.d.intent.odata_filter = s_e2e_fragment

\* C15 witness: the end-to-end scenario has ended in a success envelope.
C15_Witness ==
    /\ EndToEndScenario
    /\ pc = "done"
    /\ EchoesIntent
    /\ "success" \in DOMAIN result.d

\* the filters of two Intents agree in field, op, value and values, one by one
SameFilters(i, j) ==
    /\ Len(j.filters) = Len(i.filters)
    /\ \A k \in 1..Len(i.filters) :
          /\ j.filters[k].field = i.filters[k].field
          /\ j.filters[k].op = i.filters[k].op
          /\ j.filters[k].value = i.filters[k].value
          /\ j.filters[k].values = i.filters[k].values

\* C16: for every Intent i, Intent.from_dict(i.to_dict()) is an Intent with the
\* tool_call, the description and, one by one, the filters of i.
C16_RoundTrip ==
    last_call = "round_trip" =>
        /\ ~ret.raised
        /\ ret.v.tool_call = obj.i.tool_call
        /\ ret.v.description = obj.i.description
        /\ SameFilters(obj.i, ret.v)

\* the round trip of an Intent whose to_dict returns gives the same tool_call,
\* description and filters; it raises only where to_dict does
RoundTripWhereToDictReturns ==
    last_call = "round_trip" =>
        IF IntentToDict(obj.i).raised
        THEN ret.raised /\ ret.exc = "TypeError"
        ELSE /\ ~ret.raised
             /\ ret.v.tool_call = obj.i.tool_call
             /\ ret.v.description = obj.i.description
             /\ SameFilters(obj.i, ret.v)

\* the filter entries of the dict handed to from_dict
SuppliedEntries == IF "filters" \in DOMAIN arg THEN arg.filters ELSE <<>>

\* the values of the twelve members of Op
OpTexts == {OpText(o) : o \in Op}

\* C17: from_dict fails and constructs no Intent when the op string of some
\* entry is none of the twelve Op values; when it returns, every Filter has the
\* value and the values of its entry, an absent key giving an absent field.
C17_FromDictRejectsUnknownOp ==
    last_call = "from_dict" =>
        /\ Cardinality(OpTexts) = 12
        /\ (\E k \in 1..Len(SuppliedEntries) :
               /\ "op" \in DOMAIN SuppliedEntries[k]
               /\ SuppliedEntries[k].op \notin OpTexts)
              => (ret.raised /\ ~obj.exists)
        /\ ~ret.raised =>
              /\ obj = Obj(ret.v, FALSE)
              /\ Len(ret.v.filters) = Len(SuppliedEntries)
              /\ \A k \in 1..Len(SuppliedEntries) :
                    LET e == SuppliedEntries[k]
                        f == ret.v.filters[k]
                    IN /\ f.value = IF "value" \in DOMAIN e THEN e.value ELSE PyNone
                       /\ f.values = IF "values" \in DOMAIN e
                                     THEN SomeList(e.values) ELSE NoneList

\* C17 witness: from_dict has raised ValueError on a dict whose second entry has
\* the op EQ, after a first entry that is in order.
C17_Witness ==
    /\ last_call = "from_dict"
    /\ ret.raised
    /\ ret.exc = "ValueError"
    /\ ~obj.exists
    /\ Len(SuppliedEntries) = 2
    /\ SuppliedEntries[1].op \in OpTexts
    /\ SuppliedEntries[2].op = s_EQ

\* the Filter invariant
FilterInvariant(f) ==
    /\ f.op = "in" => (~f.values.isNone /\ f.values.items # <<>>)
    /\ f.op \in Op \ {"in", "is_null", "is_not_null"} => f.value.kind # "none"
    /\ f.op \in {"is_null", "is_not_null"} => (f.value.kind = "none" /\ f.values.isNone)

\* C18: every Filter of an Intent produced by from_dict or by the parser
\* satisfies the Filter invariant.
C18_FilterInvariant ==
    (last_call \in {"from_dict", "parse_intent"} /\ obj.exists) =>
        \A k \in 1..Len(obj.i.filters) : FilterInvariant(obj.i.filters[k])

\* C19: whatever changes the filter list has seen, the odata_filter of to_dict
\* is the fragment to_odata_filter_url computes from the filters the Intent
\* holds at the time of the call, and the filters echoed are those filters.
C19_FreshFragment ==
    last_call = "to_dict" =>
        LET url == ToODataFilterUrl(obj.i)
        IN /\ ret.raised = url.raised
           /\ ~ret.raised =>
                 /\ ret.v.odata_filter = url.v
                 /\ Len(ret.v.filters) = Len(obj.i.filters)
                 /\ (obj.i.filters = <<>>) = (ret.v.odata_filter = <<>>)
                 /\ obj.i.filters # <<>> =>
                       UrlUnquote(SubSeq(ret.v.odata_filter, Len(s_filter_marker) + 1,
                                         Len(ret.v.odata_filter)))
                          = AndOfFirst(obj.i, Len(obj.i.filters))

\* C19 witness: to_dict has returned for an Intent whose filter list was changed
\* after construction and is not empty.
C19_Witness ==
    /\ last_call = "to_dict"
    /\ obj.changed
    /\ ~ret.raised
    /\ obj.i.filters # <<>>

\* a call of execute for an Intent without filters has resolved its path: the
\* local api_endpoint is then the clean endpoint itself
ResolvedWithoutFilters ==
    /\ pc # "idle"
    /\ ~api_endpoint.isNone
    /\ intent.filters = <<>>

\* the stored URI template of the tool the Intent names
StoredTemplate == tools[FindTool(tools, intent.tool_call.s)].endpoint_info.uri

\* C20 as stated: the clean endpoint is the template without the prefix
\* /api/v1/{division}/ when the template starts with it, and otherwise the
\* template without exactly one leading slash (unchanged when it has none).
C20_OneLeadingSlashRemoved ==
    ResolvedWithoutFilters =>
        IF StartsWith(StoredTemplate, s_division_prefix)
        THEN StoredTemplate = s_division_prefix \o api_endpoint.s
        ELSE api_endpoint.s = IF StoredTemplate[1] = "/"
                              THEN Tail(StoredTemplate) ELSE StoredTemplate

\* C20, amended: the clean endpoint is the template without the prefix
\* /api/v1/{division}/ when the template starts with it, and otherwise the
\* template without all of its leading slashes (unchanged when it has none).
C20_AllLeadingSlashesRemoved ==
    ResolvedWithoutFilters =>
        IF StartsWith(StoredTemplate, s_division_prefix)
        THEN StoredTemplate = s_division_prefix \o api_endpoint.s
        ELSE /\ \E n \in 0..Len(StoredTemplate) :
                   StoredTemplate = [k \in 1..n |-> "/"] \o api_endpoint.s
             /\ (api_endpoint.s = <<>> \/ api_endpoint.s[1] # "/")

\* C20 witness: the path of a tool whose template begins with two slashes has
\* been resolved.
C20_Witness ==
    /\ ResolvedWithoutFilters
    /\ SubSeq(StoredTemplate, 1, 2) = <<"/", "/">>

\* the catalog entry the chat call dispatches to (0: none, or nothing dispatched)
ChatEndpoint ==
    IF chat_pc = "idle" \/ user_intent.tool_call.isNone \/ ~IsValid(user_intent)
       \/ FilterParam(user_intent).raised
    THEN 0
    ELSE LET found == LookupEndpoint(TOOL_CONFIG, user_intent.tool_call.s)
         IN IF found.raised THEN 0 ELSE found.v

\* the catalog entry has no URI template, or an empty one
NoTemplate(endpoint_config) ==
    LET endpoint_info == endpoint_config.documentation.endpoint_info
    IN ~endpoint_info.hasUri \/ endpoint_info.uri = <<>>

\* the chat call has invoked service.get
ChatInvokedGet == \E k \in 1..Len(api_calls) : api_calls[k].fn = "service.get"

\* C21: on the dispatch path of src/ask/services.py, a call for a tool whose
\* catalog entry has no URI template (or an empty one) never invokes
\* service.get, and execute_tool hands back an error; as in ExactToolbox.execute
\* of ask/code, no default URI stands in for the missing template.
C21_NoDefaultUri ==
    (ChatEndpoint # 0 /\ NoTemplate(TOOL_CONFIG[ChatEndpoint])) =>
        /\ ~ChatInvokedGet
        /\ chat_pc \in {"respond", "done"} => tool_result.kind = "error"

\* the tool_call is the name of a registered tool when letter case is ignored
ToolRegisteredIgnoringCase ==
    HasToolCall /\ \E i \in 1..Len(tools) : tools[i].name = Lower(intent.tool_call.s)

\* the Intent with its tool_call lower-cased
LowerCased(i) == [i EXCEPT !.tool_call = SomeStr(Lower(i.tool_call.s))]

\* C22: the registry exposes each catalog key lower-cased, and an Intent whose
\* tool_call equals a registered name up to letter case passes the tool check of
\* validate and is resolved by get_clean_endpoint as the lower-cased name is.
C22_CaseInsensitiveLookup ==
    /\ \A k \in 1..Len(tools) : tools[k].name = Lower(TOOL_CONFIG[k].key)
    /\ (pc # "idle" /\ ToolRegisteredIgnoringCase) =>
          /\ validation.raised \/ "requested_tool" \notin DOMAIN validation.v
          /\ LET resolved == GetCleanEndpoint(tools, intent)
                 lower == GetCleanEndpoint(tools, LowerCased(intent))
             IN /\ resolved.raised = lower.raised
                /\ ~lower.raised => resolved.v = lower.v

\* validate returned a failure dict
ReturnedFailure == pc # "idle" /\ ~validation.raised /\ validation.v # NoFailure

\* the keys the failure shape names
ShapeKeys ==
    {"error", "invalid_fields", "available_fields", "available_tools", "requested_tool"}

\* C23 as stated: every failure validate returns holds the key error and no key
\* outside error, invalid_fields, available_fields, available_tools and
\* requested_tool, and its available_fields, when present, is sorted.
C23_ClosedFailureShape ==
    ReturnedFailure =>
        /\ "error" \in DOMAIN validation.v
        /\ DOMAIN validation.v \subseteq ShapeKeys
        /\ "available_fields" \in DOMAIN validation.v =>
              IsSortedStrs(validation.v.available_fields)

\* C23: every failure validate returns holds the key error and no key outside
\* error, invalid_fields, available_fields, available_tools, requested_tool and
\* endpoint; endpoint (the name of the tool) comes exactly with invalid_fields
\* and available_fields, and available_fields is sorted.
C23_FailureShape ==
    ReturnedFailure =>
        /\ "error" \in DOMAIN validation.v
        /\ DOMAIN validation.v \subseteq ShapeKeys \cup {"endpoint"}
        /\ "endpoint" \in DOMAIN validation.v <=> "invalid_fields" \in DOMAIN validation.v
        /\ "endpoint" \in DOMAIN validation.v <=> "available_fields" \in DOMAIN validation.v
        /\ "endpoint" \in DOMAIN validation.v => validation.v.endpoint = intent.tool_call
        /\ "available_fields" \in DOMAIN validation.v =>
              IsSortedStrs(validation.v.available_fields)

\* C23 witness: validate returned an invalid-field failure for a tool with two
\* fields.
C23_Witness ==
    /\ ReturnedFailure
    /\ "available_fields" \in DOMAIN validation.v
    /\ Len(validation.v.available_fields) = 2

\* the names src/ask/services.py registers: get_ and the lower-cased key
ChatToolNames == {s_get_prefix \o Lower(TOOL_CONFIG[k].key) : k \in 1..Len(TOOL_CONFIG)}

\* the tool_call of the chat call names no registered tool
ChatToolUnregistered ==
    user_intent.tool_call.isNone \/ user_intent.tool_call.s \notin ChatToolNames

\* a filter of the chat call names a field that the schema of its tool lacks
ChatFieldOutsideSchema ==
    /\ ~ChatToolUnregistered
    /\ LET entry == TOOL_CONFIG[CHOOSE k \in 1..Len(TOOL_CONFIG) :
                       s_get_prefix \o Lower(TOOL_CONFIG[k].key) = user_intent.tool_call.s]
       IN /\ ~entry.fields.isNone
          /\ \E n \in 1..Len(user_intent.filters) :
                user_intent.filters[n].field \notin
                    {entry.fields.items[j].name : j \in 1..Len(entry.fields.items)}

\* C24: on the dispatch path of the chat view, an Intent whose tool_call is not
\* registered, or one of whose filters names a field outside the schema of its
\* tool, is rejected before service.get is invoked.
C24_ValidatorGatesChat ==
    (chat_pc # "idle" /\ (ChatToolUnregistered \/ ChatFieldOutsideSchema)) =>
        ~ChatInvokedGet

\* the part of C24 that the lookup of execute_tool does enforce: no call of
\* get_service or service.get is made for an unregistered tool_call
UnregisteredToolNotDispatched ==
    (chat_pc # "idle" /\ ChatToolUnregistered) => api_calls = <<>>

\* C25: an OAuth state is single-use: over every interleaving of the callback
\* requests that carry it, at most one of them posts to the token endpoint and
\* at most one token is stored.
C25_StateSingleUse ==
    /\ Len(token_posts) <= 1
    /\ stored_tokens <= 1

\* C26: a request to api_forwarder without session key is answered 401 with the
\* error `No session available`, and neither get_service nor service.get is
\* invoked for it.
C26_NoSessionIs401 ==
    (fwd_pc # "idle" /\ ~fwd_request.has_session) =>
        /\ fwd_pc = "done"
        /\ fwd_response.status = 401
        /\ fwd_response.dict = [error |-> s_no_session]
        /\ fwd_calls = <<>>

\* C26 witness: a request without session key has been answered.
C26_Witness == fwd_pc = "done" /\ ~fwd_request.has_session /\ fwd_response.status = 401

\* the view answers status with the dict {"error": msg}
AnswersError(status, msg) ==
    fwd_response.status = status /\ fwd_response.dict = [error |-> msg]

\* the view answers status s with error and details of the upstream response r
AnswersUpstreamStatus(r) ==
    /\ fwd_response.status = r.status_code
    /\ fwd_response.dict = [error |-> s_returned_status \o Digits(r.status_code),
                            details |-> r.text]

\* the view answers 200 with the decoded body of r
AnswersUpstreamBody(r) ==
    /\ fwd_response.status = 200
    /\ ~r.json.raised
    /\ fwd_response.upstream = r.json.v
    /\ fwd_response.dict = [none |-> TRUE]

\* ValueError and its subclass json.JSONDecodeError
ValueErrorClasses == {"ValueError", "JSONDecodeError"}

\* the answers to what get_service and service.get raise: 400 with the message
\* for a ValueError, 500 with `Internal server error` for any other exception
AnswersRaise ==
    fwd_outcome.kind = "raised" =>
        IF fwd_outcome.exc \in ValueErrorClasses THEN AnswersError(400, fwd_outcome.msg)
        ELSE AnswersError(500, s_internal_error)

\* a request with session key has been answered
Forwarded == fwd_pc = "done" /\ fwd_request.has_session

\* C27 as stated: the view maps each outcome to one status: upstream 200 gives
\* 200 with the upstream JSON body, another upstream status s gives s with error
\* and details, a ValueError of get_service or service.get gives 400 with its
\* message, any other exception gives 500 with `Internal server error`.
C27_OutcomeToStatus ==
    Forwarded =>
        /\ fwd_response.status \in {200, 400, 500} \cup StatusCodes
        /\ AnswersRaise
        /\ fwd_outcome.kind = "returned" =>
              IF fwd_outcome.r.status_code = 200
              THEN AnswersUpstreamBody(fwd_outcome.r)
              ELSE AnswersUpstreamStatus(fwd_outcome.r)

\* C27: as above, except that an upstream 200 gives 200 with the upstream body
\* only when the body decodes as JSON; for a 200 whose body does not decode the
\* view answers 400 with the message of the decoding error.
C27_OutcomeToStatusJson ==
    Forwarded =>
        /\ fwd_response.status \in {200, 400, 500} \cup StatusCodes
        /\ AnswersRaise
        /\ fwd_outcome.kind = "returned" =>
              IF fwd_outcome.r.status_code # 200
              THEN AnswersUpstreamStatus(fwd_outcome.r)
              ELSE IF fwd_outcome.r.json.raised
              THEN AnswersError(400, fwd_outcome.r.json.msg)
              ELSE AnswersUpstreamBody(fwd_outcome.r)

\* C27 witness: a 200 response whose body is not JSON has been answered.
C27_Witness ==
    /\ Forwarded
    /\ fwd_outcome.kind = "returned"
    /\ fwd_outcome.r.status_code = 200
    /\ fwd_outcome.r.json.raised

\* the operators of the filters the Intent object holds
OpsHeld == {obj.i.filters[k].op : k \in 1..Len(obj.i.filters)}

\* C28: the operator-to-render-rule mapping is total: _render_filter returns a
\* sub-expression for every Filter that satisfies the Filter invariant, whichever
\* of the twelve operators it has, and never raises `Unsupported operator` for
\* a Filter whose op is a member of Op.
C28_RenderRuleForEveryOp ==
    last_call = "_render_filter" =>
        \A k \in 1..Len(obj.i.filters) :
            /\ obj.i.filters[k].op \in Op
            /\ FilterInvariant(obj.i.filters[k]) =>
                  (~ret.v[k].raised /\ ret.v[k].v # <<>>)
            /\ ret.v[k].raised => ~StartsWith(ret.v[k].msg, s_unsupported)

\* C28 witness: the last rule of _render_filter, the one for is_not_null, has
\* produced a sub-expression.
C28_Witness ==
    /\ last_call = "_render_filter"
    /\ OpsHeld = {"is_not_null"}
    /\ ~ret.v[1].raised

\* the answer to the filter prompt is malformed: not JSON, or an entry without
\* field key or with an operator outside the enumeration
MalformedAnswer(content) ==
    \/ ~content.is_json
    \/ \E k \in 1..Len(content.filter_data) :
          \/ "field" \notin DOMAIN content.filter_data[k]
          \/ ("op" \in DOMAIN content.filter_data[k]
              /\ content.filter_data[k].op \notin OpTexts)

\* C29: malformed output of the translation collaborator is rejected, not
\* repaired: for an answer to the filter prompt that is not JSON, or that holds
\* an entry without field key or with an operator outside the enumeration,
\* parse_intent produces no Intent (in particular none with an empty filter
\* list in place of the entries supplied).
C29_MalformedAnswerRejected ==
    (last_call = "parse_intent" /\ MalformedAnswer(arg)) => ~obj.exists

\* what the parser does with a malformed answer: it produces an Intent without
\* filters, whatever entries the answer held
MalformedAnswerGivesNoFilters ==
    (last_call = "parse_intent" /\ MalformedAnswer(arg)) =>
        (obj.exists /\ obj.i.filters = <<>>)

\* the positions in http_log of the requests to the data URL / the token URL
DataAt == {k \in 1..Len(http_log) : http_log[k].url = "data"}
TokenAt == {k \in 1..Len(http_log) : http_log[k].url = "token"}

\* the first and the last request to the data URL
FirstData == http_log[CHOOSE k \in DataAt : \A j \in DataAt : k <= j]
LastData == http_log[CHOOSE k \in DataAt : \A j \in DataAt : j <= k]

\* at most two requests go to the data URL; a second one only after a first
\* that returned 401 while the token was expired, with exactly one token
\* refresh, which lies between the two
RetryDiscipline ==
    /\ Cardinality(DataAt) <= 2
    /\ Cardinality(TokenAt) <= 1
    /\ Cardinality(DataAt) = 2 =>
          /\ FirstData.status_code = 401 /\ FirstData.expired
          /\ \E t \in TokenAt :
                /\ \E a \in DataAt : a < t
                /\ \E b \in DataAt : t < b
                /\ http_log[t].status_code = 200
    /\ TokenAt # {} => (DataAt # {} /\ FirstData.status_code = 401 /\ FirstData.expired)

\* the response of the second request is what get returns, whatever its status
SecondResponseReturned ==
    (svc_pc = "done" /\ Cardinality(DataAt) = 2 /\ LastData.status_code # 0) =>
        (svc_result.state = "returned"
         /\ svc_result.status_code = LastData.status_code)

\* get received 401 for its first data request while the token was not expired
Got401Unexpired ==
    /\ svc_pc = "done"
    /\ DataAt # {}
    /\ FirstData.status_code = 401
    /\ ~FirstData.expired

\* the 401 is returned without refresh or retry
Returned401 ==
    /\ svc_result.state = "returned" /\ svc_result.status_code = 401
    /\ TokenAt = {}
    /\ Cardinality(DataAt) = 1

\* C30: one call of ExactOnlineService.get issues at most two requests to the
\* data URL, the second only when the first returned 401 and the token is
\* expired, preceded by exactly one token refresh; a 401 received while the
\* token is not expired is returned to the caller without refresh or retry; the
\* second response is returned whatever its status.
C30_RetryOnceOnExpired401 ==
    /\ RetryDiscipline
    /\ SecondResponseReturned
    /\ Got401Unexpired => Returned401

\* what holds of get: as C30, but the 401 is returned only when its body
\* decodes as JSON; for any other body get raises the decoding error
RetryOnceOnExpired401Json ==
    /\ RetryDiscipline
    /\ SecondResponseReturned
    /\ Got401Unexpired =>
          IF FirstData.is_json THEN Returned401
          ELSE /\ svc_result.state = "raised" /\ svc_result.exc = "JSONDecodeError"
               /\ TokenAt = {}
               /\ Cardinality(DataAt) = 1

====
